---------------------------- MODULE Spec2Model ----------------------------
(***************************************************************************)
(* Model of the agent execution core of renglo-lib                         *)
(* (src/renglo/agent/agent_utilities.py, class AgentUtilities).            *)
(*                                                                         *)
(* Python values are modelled as tagged records:                           *)
(*   str    [t |-> "str",   s |-> "abc"]                                   *)
(*   int    [t |-> "int",   n |-> 7]                                       *)
(*   bool   [t |-> "bool",  b |-> TRUE]                                    *)
(*   float  [t |-> "float", m |-> 15]    the float 1.5, held in tenths     *)
(*   Decimal[t |-> "dec",   m |-> 15]    Decimal('1.5'), held in tenths    *)
(*   None   [t |-> "none"]                                                 *)
(*   list   [t |-> "list",  items |-> <<...>>]                             *)
(*   dict   [t |-> "map",   ks |-> <<keys>>, vs |-> <<values>>]            *)
(* A dict keeps its keys in insertion order, as Python's does.             *)
(***************************************************************************)
EXTENDS Integers, Sequences, FiniteSets, TLC

VARIABLES
    obj,            \* sanitize: the argument
    sanitized,      \* sanitize: sanitize(obj)
    resanitized,    \* sanitize: sanitize(sanitize(obj))
    san_pc,         \* sanitize: "in" | "once" | "twice"
    history,        \* prune_history: the argument
    pruned,         \* prune_history: the returned list
    prune_pc,       \* prune_history: "in" | "done"
    raw_response,   \* validate_interpret_openai_llm_response: the argument
    validation,     \* validate_interpret_openai_llm_response: the returned result
    val_pc,         \* validate_interpret_openai_llm_response: "in" | "done"
    workspaces,     \* the store: the thread's workspace documents, in list order
    writes,         \* the store: who replaced a document, in the order of the replaces
    calls,          \* mutate_workspace calls started so far
    clock,          \* datetime.now()
    pcw,            \* mutate_workspace: where each caller is
    changes,        \* mutate_workspace: each caller's changes argument
    wsid,           \* mutate_workspace: each caller's workspace_id argument
    listed,         \* mutate_workspace: each caller's workspaces_list['items']
    ret,            \* mutate_workspace: what each caller's call returned
    sent,           \* mutate_workspace: the documents each call handed to the store
    pre,            \* the store when each caller's call began
    seen,           \* how many replaces the store had done when each caller listed
    transcript,     \* the store: the thread's chat messages, in order
    pushed,         \* the live channel: the documents delivered to it
    printed,        \* print_chat: what each call returned, in the order of the calls
    channel,        \* the live channel: the connection id and whether the client is configured
    chat,           \* save_chat: each caller's call (its arguments and where it is)
    saves,          \* save_chat calls started so far
    stage,          \* interpret, act: each caller's call (its arguments and where it is)
    dispatched,     \* the handler dispatcher: the tool calls handed to it, in order
    message_list,   \* clear_tool_message_content: the argument
    recent,         \* clear_tool_message_content: recent_tool_messages, how many tool messages keep their content
    cleared,        \* clear_tool_message_content: the returned list
    clear_pc,       \* clear_tool_message_content: "in" | "done"
    schd_runs,      \* the store: the schd_runs documents, in the order of their creation
    job             \* create_job_run: the call (its arguments and where it is)

sanVars == <<obj, sanitized, resanitized, san_pc>>
pruneVars == <<history, pruned, prune_pc>>
valVars == <<raw_response, validation, val_pc>>
wsVars == <<workspaces, writes, calls, clock, pcw, changes, wsid, listed, ret, sent, pre, seen>>
chatVars == <<transcript, pushed, printed, channel, chat, saves>>
stageVars == <<stage, dispatched>>
clearVars == <<message_list, recent, cleared, clear_pc>>
jobVars == <<schd_runs, job>>
vars == <<sanVars, pruneVars, valVars, wsVars, chatVars, stageVars, clearVars, jobVars>>

\* what each group of operations leaves alone
notSan == <<pruneVars, valVars, wsVars, chatVars, stageVars, clearVars, jobVars>>
notPrune == <<sanVars, valVars, wsVars, chatVars, stageVars, clearVars, jobVars>>
notVal == <<sanVars, pruneVars, wsVars, chatVars, stageVars, clearVars, jobVars>>
notWs == <<sanVars, pruneVars, valVars, chatVars, stageVars, clearVars, jobVars>>
notChat == <<sanVars, pruneVars, valVars, wsVars, stageVars, clearVars, jobVars>>
notStage == <<sanVars, pruneVars, valVars, wsVars, clearVars, jobVars>>
notClear == <<sanVars, pruneVars, valVars, wsVars, chatVars, stageVars, jobVars>>
notJob == <<sanVars, pruneVars, valVars, wsVars, chatVars, stageVars, clearVars>>

-----------------------------------------------------------------------------
(* Bounds of the model *)

\* longest list / largest dict among the values drawn as inputs of sanitize
MaxLen == 2
\* longest belief history handed to prune_history
MaxHist == 4
\* most tool calls in one assistant message
MaxToolCalls == 2
\* most mutate_workspace calls in a run
MaxCalls == 2
\* most save_chat calls in a run
MaxSaves == 1
\* longest message list handed to clear_tool_message_content
MaxMsgs == 3
\* the calls of create_job_run in a behaviour
MaxRuns == 2

-----------------------------------------------------------------------------
(* Python values *)

VStr(s) == [t |-> "str", s |-> s]
VInt(n) == [t |-> "int", n |-> n]
VBool(b) == [t |-> "bool", b |-> b]
VFloat(m) == [t |-> "float", m |-> m]
VDec(m) == [t |-> "dec", m |-> m]
None == [t |-> "none"]
VList(items) == [t |-> "list", items |-> items]
VMap(ks, vs) == [t |-> "map", ks |-> ks, vs |-> vs]

IsStr(v) == v.t = "str"
IsDict(v) == v.t = "map"
IsList(v) == v.t = "list"

Range(s) == {s[i] : i \in 1..Len(s)}
Reverse(s) == [i \in 1..Len(s) |-> s[Len(s) + 1 - i]]

\* k in d
Has(d, k) == \E i \in 1..Len(d.ks) : d.ks[i] = k
KeyIdx(d, k) == CHOOSE i \in 1..Len(d.ks) : d.ks[i] = k
\* d[k]
Get(d, k) == d.vs[KeyIdx(d, k)]
\* d[k] = v : an existing key keeps its place, a new key goes last
Put(d, k, v) ==
    IF Has(d, k)
    THEN VMap(d.ks, [d.vs EXCEPT ![KeyIdx(d, k)] = v])
    ELSE VMap(Append(d.ks, k), Append(d.vs, v))

\* str(x) of a float held in tenths: 1.5 -> "1.5", 2.0 -> "2.0", -1.5 -> "-1.5"
FloatStr(m) ==
    LET a == IF m < 0 THEN 0 - m ELSE m
    IN  (IF m < 0 THEN "-" ELSE "") \o ToString(a \div 10) \o "." \o ToString(a % 10)

-----------------------------------------------------------------------------
(* AgentUtilities.sanitize *)

RECURSIVE sanitize_keep_float(_)
\* a sanitize that forgets the float branch
sanitize_keep_float(x) ==
    CASE x.t = "list" -> VList([i \in 1..Len(x.items) |-> sanitize_keep_float(x.items[i])])
      [] x.t = "map" -> VMap(x.ks, [i \in 1..Len(x.vs) |-> sanitize_keep_float(x.vs[i])])
      [] x.t = "dec" -> IF x.m % 10 = 0 THEN VInt(x.m \div 10) ELSE VFloat(x.m)
      [] OTHER -> x

RECURSIVE sanitize(_)
sanitize(x) ==
    CASE x.t = "list" -> VList([i \in 1..Len(x.items) |-> sanitize(x.items[i])])
      [] x.t = "map" -> VMap(x.ks, [i \in 1..Len(x.vs) |-> sanitize(x.vs[i])])
      [] x.t = "dec" -> IF x.m % 10 = 0 THEN VInt(x.m \div 10) ELSE VFloat(x.m)
      [] x.t = "float" -> VStr(FloatStr(x.m))
      [] OTHER -> x

\* whether a decimal or a float occurs in x at any depth
RECURSIVE HasDecOrFloat(_)
HasDecOrFloat(x) ==
    CASE x.t = "list" -> \E i \in 1..Len(x.items) : HasDecOrFloat(x.items[i])
      [] x.t = "map" -> \E i \in 1..Len(x.vs) : HasDecOrFloat(x.vs[i])
      [] OTHER -> x.t \in {"dec", "float"}

\* the nesting of x with every leaf forgotten: lists keep their length, dicts their keys
RECURSIVE Shape(_)
Shape(x) ==
    CASE x.t = "list" -> VList([i \in 1..Len(x.items) |-> Shape(x.items[i])])
      [] x.t = "map" -> VMap(x.ks, [i \in 1..Len(x.vs) |-> Shape(x.vs[i])])
      [] OTHER -> None

(* the values sanitize is applied to *)
Leaves ==
    { VStr("a"), VStr(""), VBool(TRUE), VBool(FALSE), VInt(0), VInt(7),
      VFloat(15), VFloat(20), VDec(30), VDec(25), VDec(0 - 15) }
Keys == {"a", "b", "c"}
SeqsUpTo(S, n) == UNION {[1..k -> S] : k \in 0..n}
KeySeqs(n) == {ks \in SeqsUpTo(Keys, n) : \A i, j \in 1..Len(ks) : i # j => ks[i] # ks[j]}
ListsOf(S, n) == {VList(s) : s \in SeqsUpTo(S, n)}
MapsOf(S, n) == UNION {{VMap(ks, vs) : vs \in [1..Len(ks) -> S]} : ks \in KeySeqs(n)}
Flat(n) == ListsOf(Leaves, n) \cup MapsOf(Leaves, n)
Nested(n) == ListsOf(Flat(n), 1) \cup MapsOf(Flat(n), 1)
SanValues(n) == Leaves \cup Flat(n) \cup Nested(n)

Sanitize ==
    /\ san_pc = "in"
    /\ sanitized' = sanitize(obj)
    /\ san_pc' = "once"
    /\ UNCHANGED <<obj, resanitized, notSan>>

SanitizeAgain ==
    /\ san_pc = "once"
    /\ resanitized' = sanitize(sanitized)
    /\ san_pc' = "twice"
    /\ UNCHANGED <<obj, sanitized, notSan>>

-----------------------------------------------------------------------------
(* AgentUtilities.prune_history *)

\* the second pass of prune_history: items i, i-1, .. 1, keeping an item whose
\* key has not been seen
RECURSIVE PruneScan(_, _, _, _)
PruneScan(h, i, seen_keys, pruned_history) ==
    IF i = 0 THEN pruned_history
    ELSE IF h[i].key \notin seen_keys
         THEN PruneScan(h, i - 1, seen_keys \cup {h[i].key}, Append(pruned_history, h[i]))
         ELSE PruneScan(h, i - 1, seen_keys, pruned_history)

\* the same scan run from the front: keeps the oldest item of each key
RECURSIVE PruneScanForward(_, _, _, _)
PruneScanForward(h, i, seen_keys, pruned_history) ==
    IF i > Len(h) THEN pruned_history
    ELSE IF h[i].key \notin seen_keys
         THEN PruneScanForward(h, i + 1, seen_keys \cup {h[i].key}, Append(pruned_history, h[i]))
         ELSE PruneScanForward(h, i + 1, seen_keys, pruned_history)

prune_history_oldest(h) == PruneScanForward(h, 1, {}, <<>>)

prune_history(h) == Reverse(PruneScan(h, Len(h), {}, <<>>))

HistKeys == {"a", "b", "c"}
HistVals == {VStr("x"), VInt(1)}
\* history events as mutate_workspace appends them; time is the position in the list
Histories(n) ==
    UNION {{[i \in 1..k |-> [type |-> "belief", key |-> ks[i], val |-> vs[i], time |-> i]] :
                ks \in [1..k -> HistKeys], vs \in [1..k -> HistVals]} : k \in 0..n}

Prune ==
    /\ prune_pc = "in"
    /\ pruned' = prune_history(history)
    /\ prune_pc' = "done"
    /\ UNCHANGED <<history, notPrune>>

-----------------------------------------------------------------------------
(* json.loads / json.dumps on the texts the model uses *)

JsonError == [t |-> "JSONDecodeError"]

\* the JSON texts of the model with the value each parses to; any other text
\* is not JSON
JsonTexts ==
    { [text |-> "{}", value |-> VMap(<<>>, <<>>)],
      [text |-> "{\"a\": 1}", value |-> VMap(<<"a">>, <<VInt(1)>>)],
      [text |-> "\"{}\"", value |-> VStr("{}")],
      [text |-> "\"{\\\"a\\\": 1}\"", value |-> VStr("{\"a\": 1}")],
      [text |-> "\"x\"", value |-> VStr("x")],
      [text |-> "1", value |-> VInt(1)],
      [text |-> "[]", value |-> VList(<<>>)],
      [text |-> "[{\"a\": 1}]", value |-> VList(<<VMap(<<"a">>, <<VInt(1)>>)>>)],
      [text |-> "[{\"name\": \"o\", \"hint\": \"h\", \"required\": true}]",
       value |-> VList(<<VMap(<<"name", "hint", "required">>,
                              <<VStr("o"), VStr("h"), VBool(TRUE)>>)>>)] }

json_loads(s) ==
    IF \E e \in JsonTexts : e.text = s
    THEN (CHOOSE e \in JsonTexts : e.text = s).value
    ELSE JsonError

json_dumps(v) == (CHOOSE e \in JsonTexts : e.value = v).text

\* a repair that turns whatever it is given into an empty object
repair_to_empty_object(double_escaped_string) == VStr("{}")

\* AgentUtilities.remove_outer_escape: the cleaned JSON text, or None
remove_outer_escape(double_escaped_string) ==
    LET outer_parsed == json_loads(double_escaped_string)
    IN  IF outer_parsed = JsonError THEN None
        ELSE IF IsStr(outer_parsed)
             THEN LET inner_parsed == json_loads(outer_parsed.s)
                  IN  IF inner_parsed = JsonError THEN None
                      ELSE VStr(json_dumps(inner_parsed))
             ELSE VStr(json_dumps(outer_parsed))

-----------------------------------------------------------------------------
(* AgentUtilities.validate_interpret_openai_llm_response *)

\* a null test that only looks whether the key is there
KeyPresent(d, k) == Has(d, k)

\* k in d and d[k] is not None
NonNull(d, k) == Has(d, k) /\ Get(d, k) # None

\* Python truthiness
Truthy(v) ==
    CASE v.t = "none" -> FALSE
      [] v.t = "str" -> v.s # ""
      [] v.t = "int" -> v.n # 0
      [] v.t = "bool" -> v.b
      [] v.t = "list" -> Len(v.items) > 0
      [] v.t = "map" -> Len(v.ks) > 0
      [] OTHER -> TRUE

Rejected(response, reason) ==
    [success |-> FALSE, action |-> "validate_interpret_openai_llm_response",
     input |-> response, output |-> VStr(reason)]
Accepted(response) ==
    [success |-> TRUE, action |-> "validate_interpret_openai_llm_response",
     input |-> None, output |-> response]

\* the first of the fields that d lacks or holds as None, "" when there is none
FirstMissing(d, fields) ==
    IF \E i \in 1..Len(fields) : ~NonNull(d, fields[i])
    THEN fields[CHOOSE i \in 1..Len(fields) :
                    /\ ~NonNull(d, fields[i])
                    /\ \A j \in 1..(i - 1) : NonNull(d, fields[j])]
    ELSE ""

\* lines 1284 to 1287 and 1295 to 1298: the failure of a tool call whose first
\* missing field is `missing`; with no field missing, what the tests after
\* the loop over the fields give
MissingField(tool_call, missing, text, next) ==
    IF missing # ""
    THEN [ok |-> FALSE, why |-> text \o missing \o "' or field is null", call |-> tool_call]
    ELSE next

\* lines 1304 to 1315: the arguments did not parse and escape_result is what
\* remove_outer_escape made of them
RepairArguments(tool_call, function, escape_result) ==
    IF Truthy(escape_result)
    THEN IF json_loads(escape_result.s) = JsonError
         THEN [ok |-> FALSE,
               why |-> "Tool call arguments must be a valid JSON string after cleaning",
               call |-> tool_call]
         ELSE [ok |-> TRUE, why |-> "",
               call |-> Put(tool_call, "function",
                            Put(function, "arguments", escape_result))]
    ELSE [ok |-> FALSE,
          why |-> "Tool call arguments must be a valid JSON string",
          call |-> tool_call]

\* lines 1300 to 1315: arguments that are a string must parse as JSON, at once
\* or after the repair
ValidateArguments(tool_call, function, arguments) ==
    IF IsStr(arguments) /\ json_loads(arguments.s) = JsonError
    THEN RepairArguments(tool_call, function, remove_outer_escape(arguments.s))
    ELSE [ok |-> TRUE, why |-> "", call |-> tool_call]

\* lines 1292 to 1315: the tests on tool_call['function']
ValidateFunction(tool_call, function) ==
    IF ~IsDict(function)
    THEN [ok |-> FALSE, why |-> "Tool call 'function' must be a dictionary", call |-> tool_call]
    ELSE MissingField(tool_call, FirstMissing(function, <<"name", "arguments">>),
                      "Tool call function missing required field '",
                      ValidateArguments(tool_call, function, Get(function, "arguments")))

\* the body of the loop over response['tool_calls']: whether the tool call
\* passes, the failure text when it does not, and the tool call as the
\* validator leaves it (its arguments rewritten when the repair succeeds)
ValidateToolCall(tool_call) ==
    IF ~IsDict(tool_call)
    THEN [ok |-> FALSE, why |-> "Each tool call must be a dictionary", call |-> tool_call]
    ELSE MissingField(tool_call, FirstMissing(tool_call, <<"id", "type", "function">>),
                      "Tool call missing required field '",
                      IF Get(tool_call, "type") # VStr("function")
                      THEN [ok |-> FALSE, why |-> "Tool call type must be 'function'",
                            call |-> tool_call]
                      ELSE ValidateFunction(tool_call, Get(tool_call, "function")))

\* the loop over response['tool_calls'] from entry i on: the calls as the loop
\* leaves them and the first failure text, "" when every call passes
RECURSIVE ValidateToolCalls(_, _)
LoopStep(tool_calls, i, r) ==
    IF r.ok
    THEN ValidateToolCalls([tool_calls EXCEPT ![i] = r.call], i + 1)
    ELSE [calls |-> tool_calls, why |-> r.why]

ValidateToolCalls(tool_calls, i) ==
    IF i > Len(tool_calls) THEN [calls |-> tool_calls, why |-> ""]
    ELSE LoopStep(tool_calls, i, ValidateToolCall(tool_calls[i]))

\* a validator that leaves the content of a tool-call message as it came
KeepContent(raw) == raw

\* lines 1271 to 1273: a message with content and tool_calls loses its content
ForceContent(raw) ==
    IF NonNull(raw, "content") /\ NonNull(raw, "tool_calls")
    THEN Put(raw, "content", VStr(""))
    ELSE raw

\* lines 1317 to 1321: the end of the validator, on the message as the loop
\* left it and the failure text of the loop
ValidateContent(has_content, checked, why) ==
    IF why # ""
    THEN Rejected(checked, why)
    ELSE IF has_content /\ ~IsStr(Get(checked, "content"))
    THEN Rejected(checked, "Content must be a string")
    ELSE Accepted(checked)

\* the message with the tool calls as the loop left them
AfterLoop(response, has_content, has_tool_calls, looped) ==
    ValidateContent(has_content,
                    IF has_tool_calls
                    THEN Put(response, "tool_calls", VList(looped.calls))
                    ELSE response,
                    looped.why)

\* lines 1264 to 1321: the validator once the role has passed
ValidateAssistant(response, has_content, has_tool_calls) ==
    IF ~(has_content \/ has_tool_calls)
    THEN Rejected(response,
             "Response must have either non-null 'content' or non-null 'tool_calls'")
    ELSE IF has_tool_calls /\ ~IsList(Get(response, "tool_calls"))
    THEN Rejected(response, "'tool_calls' must be a list")
    ELSE AfterLoop(response, has_content, has_tool_calls,
                IF has_tool_calls
                THEN ValidateToolCalls(Get(response, "tool_calls").items, 1)
                ELSE [calls |-> <<>>, why |-> ""])

validate_interpret_openai_llm_response(raw) ==
    IF ~Has(raw, "role")
    THEN Rejected(raw, "Response missing required 'role' field")
    ELSE IF Get(raw, "role") # VStr("assistant")
    THEN Rejected(raw, "Response role must be 'assistant'")
    ELSE ValidateAssistant(ForceContent(raw), NonNull(raw, "content"),
                           NonNull(raw, "tool_calls"))

(* the messages the validator is given *)
ToolCall(id, type, function) == VMap(<<"id", "type", "function">>, <<id, type, function>>)
Function(name, arguments) == VMap(<<"name", "arguments">>, <<name, arguments>>)
ArgumentValues ==
    { VStr("{}"), VStr("{\"a\": 1}"), VStr("\"{}\""), VStr("{a: 1"), VStr(""),
      VMap(<<"a">>, <<VInt(1)>>), None }
GoodToolCalls ==
    { ToolCall(VStr(id), VStr("function"), Function(VStr("x"), VStr("{}"))) : id \in {"1", "2"} }
ToolCallValues ==
    GoodToolCalls
    \cup { ToolCall(VStr("1"), VStr("function"), Function(VStr("x"), a)) : a \in ArgumentValues }
    \cup { ToolCall(None, VStr("function"), Function(VStr("x"), VStr("{}"))),
           ToolCall(VStr("1"), VStr("code"), Function(VStr("x"), VStr("{}"))),
           ToolCall(VStr("1"), None, Function(VStr("x"), VStr("{}"))),
           ToolCall(VStr("1"), VStr("function"), None),
           ToolCall(VStr("1"), VStr("function"), VStr("x")),
           ToolCall(VStr("1"), VStr("function"), Function(None, VStr("{}"))),
           VMap(<<"id", "type">>, <<VStr("1"), VStr("function")>>),
           VMap(<<"type", "function">>, <<VStr("function"), Function(VStr("x"), VStr("{}"))>>),
           ToolCall(VStr("1"), VStr("function"), VMap(<<"name">>, <<VStr("x")>>)),
           VStr("call") }
RoleValues == {VStr("assistant"), VStr("user")}
ContentValues == {None, VStr("hi"), VStr(""), VInt(5)}
ToolCallsValues(n) ==
    {None, VStr("x"), VMap(<<>>, <<>>)} \cup ListsOf(ToolCallValues, n)

\* a dict of the given keys and values without the entries whose value is Absent
Absent == [t |-> "absent"]
RECURSIVE DictOf(_, _)
DictOf(ks, vs) ==
    IF Len(ks) = 0 THEN VMap(<<>>, <<>>)
    ELSE LET rest == DictOf(Tail(ks), Tail(vs))
         IN  IF Head(vs) = Absent THEN rest
             ELSE VMap(<<Head(ks)>> \o rest.ks, <<Head(vs)>> \o rest.vs)

RawResponses(n) ==
    { DictOf(<<"role", "content", "tool_calls">>, <<r, c, tc>>) :
        r \in RoleValues \cup {Absent},
        c \in ContentValues \cup {Absent},
        tc \in ToolCallsValues(n) \cup {Absent} }

Validate ==
    /\ val_pc = "in"
    /\ validation' = validate_interpret_openai_llm_response(raw_response)
    /\ val_pc' = "done"
    /\ UNCHANGED <<raw_response, notVal>>

-----------------------------------------------------------------------------
(* AgentUtilities.get_or_create_step and the loop of mutate_workspace *)

EmptyDict == VMap(<<>>, <<>>)
EmptyList == VList(<<>>)

\* an exception leaving the try block of mutate_workspace
Raised == [t |-> "raised"]

\* str(x)
StrOf(v) ==
    CASE v.t = "str" -> v.s
      [] v.t = "int" -> ToString(v.n)
      [] v.t = "float" -> FloatStr(v.m)
      [] v.t = "bool" -> IF v.b THEN "True" ELSE "False"
      [] v.t = "none" -> "None"
      [] OTHER -> "<" \o v.t \o ">"

\* d[k1][k2] = v
Put2(d, k1, k2, v) == Put(d, k1, Put(Get(d, k1), k2, v))

\* a merge in which the old value of a key wins
RECURSIVE MergeDictKeepOld(_, _)
MergeDictKeepOld(a, b) ==
    IF Len(b.ks) = 0 THEN a
    ELSE MergeDictKeepOld(IF Has(a, Head(b.ks)) THEN a ELSE Put(a, Head(b.ks), Head(b.vs)),
                          VMap(Tail(b.ks), Tail(b.vs)))

\* an assignment where the merge should be: the update replaces the mapping
MergeDictReplace(a, b) == b

\* {**a, **b}
RECURSIVE MergeDict(_, _)
MergeDict(a, b) ==
    IF Len(b.ks) = 0 THEN a
    ELSE MergeDict(Put(a, Head(b.ks), Head(b.vs)), VMap(Tail(b.ks), Tail(b.vs)))

\* the state a workspace without one is given
DefaultState ==
    VMap(<<"beliefs", "desire", "intent", "history", "in_progress">>,
         <<EmptyDict, VStr(""), EmptyList, EmptyList, None>>)

\* the first step of steps whose str(step_id) is target, 0 when the scan
\* ends without one (or meets an entry that is no dict)
FindStep(steps, target) ==
    LET hit(i) == IsDict(steps[i])
                  /\ StrOf(IF Has(steps[i], "step_id") THEN Get(steps[i], "step_id")
                           ELSE VStr("")) = target
        ok(i) == \A j \in 1..(i - 1) : IsDict(steps[j]) /\ ~hit(j)
    IN  IF \E i \in 1..Len(steps) : hit(i) /\ ok(i)
        THEN CHOOSE i \in 1..Len(steps) : hit(i) /\ ok(i)
        ELSE 0

\* d.setdefault(k, v): d with k set to v when d lacks k
EnsureKey(d, k, v) == IF Has(d, k) THEN d ELSE Put(d, k, v)

\* d[k1][k2]
Get2(d, k1, k2) == Get(Get(d, k1), k2)

\* workspace['state_machine'][plan_id]['steps']
StepsOf(workspace, plan_id) == Get(Get2(workspace, "state_machine", plan_id), "steps")

\* lines 451 to 458 of get_or_create_step: the workspace with state_machine,
\* state_machine[plan_id] and its steps list made when absent; Raised when
\* one of them is there and is not what the code takes it for
EnsureMachine(workspace) ==
    IF ~IsDict(Get(workspace, "state_machine")) THEN Raised
    ELSE workspace
EnsureEntry(workspace, plan_id) ==
    IF workspace = Raised THEN Raised
    ELSE IF ~IsDict(Get2(workspace, "state_machine", plan_id)) THEN Raised
    ELSE Put2(workspace, "state_machine", plan_id,
              EnsureKey(Get2(workspace, "state_machine", plan_id), "steps", EmptyList))
EnsureSteps(workspace, plan_id) ==
    EnsureEntry(
        EnsureMachine(
            IF ~Has(workspace, "state_machine")
            THEN Put(workspace, "state_machine",
                     VMap(<<plan_id>>, <<VMap(<<"steps">>, <<EmptyList>>)>>))
            ELSE IF IsDict(Get(workspace, "state_machine"))
            THEN Put(workspace, "state_machine",
                     EnsureKey(Get(workspace, "state_machine"), plan_id,
                               VMap(<<"steps">>, <<EmptyList>>)))
            ELSE workspace),
        plan_id)

\* lines 460 to 471 on the workspace w that EnsureSteps leaves
ScanSteps(w, plan_id, plan_step) ==
    IF w = Raised THEN [raised |-> TRUE, workspace |-> w, step |-> 0]
    ELSE IF ~IsList(StepsOf(w, plan_id)) THEN [raised |-> TRUE, workspace |-> w, step |-> 0]
    ELSE [raised |-> FindStep(StepsOf(w, plan_id).items, StrOf(plan_step)) = 0,
          workspace |-> w,
          step |-> FindStep(StepsOf(w, plan_id).items, StrOf(plan_step))]

\* lines 460 to 471, appending the missing step instead of raising
ScanStepsFabricate(w, plan_id, plan_step) ==
    IF w = Raised THEN [raised |-> TRUE, workspace |-> w, step |-> 0]
    ELSE IF ~IsList(StepsOf(w, plan_id)) THEN [raised |-> TRUE, workspace |-> w, step |-> 0]
    ELSE IF FindStep(StepsOf(w, plan_id).items, StrOf(plan_step)) # 0
    THEN [raised |-> FALSE, workspace |-> w,
          step |-> FindStep(StepsOf(w, plan_id).items, StrOf(plan_step))]
    ELSE [raised |-> FALSE,
          workspace |->
              Put2(w, "state_machine", plan_id,
                   Put(Get2(w, "state_machine", plan_id), "steps",
                       VList(Append(StepsOf(w, plan_id).items,
                                    VMap(<<"step_id">>, <<VStr(StrOf(plan_step))>>))))),
          step |-> Len(StepsOf(w, plan_id).items) + 1]

\* a step lookup that appends the missing step instead of raising
get_or_create_step_fabricate(workspace, plan_id, plan_step) ==
    ScanStepsFabricate(EnsureSteps(workspace, plan_id), plan_id, plan_step)

\* AgentUtilities.get_or_create_step: the workspace as the lookup leaves it,
\* whether it raised, and the place of the step in the plan's steps
get_or_create_step(workspace, plan_id, plan_step) ==
    ScanSteps(EnsureSteps(workspace, plan_id), plan_id, plan_step)

\* workspace['state_machine'][plan_id]['steps'][i] = step
PutStep(workspace, plan_id, i, step) ==
    Put2(workspace, "state_machine", plan_id,
         Put(Get2(workspace, "state_machine", plan_id), "steps",
             VList([StepsOf(workspace, plan_id).items EXCEPT ![i] = step])))

\* step[f] = output[f] for each f of fields that output has, in order
RECURSIVE CopyFields(_, _, _)
CopyFields(target, output, fields) ==
    IF Len(fields) = 0 THEN target
    ELSE CopyFields(IF Has(output, Head(fields))
                    THEN Put(target, Head(fields), Get(output, Head(fields)))
                    ELSE target,
                    output, Tail(fields))

\* ledger events put at the head of the history instead of its end
RECURSIVE PrependEvents(_, _, _)
PrependEvents(hist, output, time) ==
    IF Len(output.ks) = 0 THEN hist
    ELSE PrependEvents(
             <<VMap(<<"type", "key", "val", "time">>,
                    <<VStr("belief"), VStr(Head(output.ks)),
                      sanitize(Head(output.vs)), time>>)>> \o hist,
             VMap(Tail(output.ks), Tail(output.vs)), time)

\* the ledger events of one belief_history value, appended in mapping order
RECURSIVE AppendEvents(_, _, _)
AppendEvents(hist, output, time) ==
    IF Len(output.ks) = 0 THEN hist
    ELSE AppendEvents(
             Append(hist, VMap(<<"type", "key", "val", "time">>,
                               <<VStr("belief"), VStr(Head(output.ks)),
                                 sanitize(Head(output.vs)), time>>)),
             VMap(Tail(output.ks), Tail(output.vs)), time)

\* a cache that is the mapping it was given last
ReplaceCache(cache, output) == sanitize(output)

\* workspace['cache'][k] = sanitize(v) for each (k, v) of output
RECURSIVE PutSanitized(_, _)
PutSanitized(cache, output) ==
    IF Len(output.ks) = 0 THEN cache
    ELSE PutSanitized(Put(cache, Head(output.ks), sanitize(Head(output.vs))),
                      VMap(Tail(output.ks), Tail(output.vs)))

\* a new_state_machine that always stores what it is given
NewStateMachineOverwrite(workspace, output) ==
    IF ~IsDict(output) THEN workspace
    ELSE IF ~Has(output, "plan_id") THEN Raised
    ELSE LET w1 == IF Has(workspace, "state_machine") THEN workspace
                   ELSE Put(workspace, "state_machine", EmptyDict)
         IN  Put2(w1, "state_machine", Get(output, "plan_id").s, sanitize(output))

\* the body of the loop for key 'new_state_machine'
NewStateMachine(workspace, output) ==
    IF ~IsDict(output) THEN workspace
    ELSE IF ~Has(output, "plan_id") THEN Raised
    ELSE LET plan_id == Get(output, "plan_id").s
             w1 == IF Has(workspace, "state_machine") THEN workspace
                   ELSE Put(workspace, "state_machine", EmptyDict)
         IN  IF ~Has(Get(w1, "state_machine"), plan_id)
             THEN Put2(w1, "state_machine", plan_id, sanitize(output))
             ELSE w1

\* lines 655 to 662 on the step that the lookup r found
MergeStepState(r, plan_id, output) ==
    IF r.raised THEN Raised
    ELSE PutStep(r.workspace, plan_id, r.step,
                 CopyFields(StepsOf(r.workspace, plan_id).items[r.step], output,
                            <<"status", "error", "started_at", "finished_at">>))

\* the body of the loop for key 'step_state'
StepState(workspace, output) ==
    IF ~IsDict(output) THEN workspace
    ELSE IF ~(Has(output, "plan_id") /\ Has(output, "plan_step")) THEN workspace
    ELSE MergeStepState(
             get_or_create_step(workspace, Get(output, "plan_id").s, Get(output, "plan_step")),
             Get(output, "plan_id").s, output)

\* a step whose action_log is started anew by every record
ResetLog(step, log) == Put(step, "action_log", VList(<<log>>))

\* lines 715 to 718 on the step: its action_log, made when absent, gets log
AppendLog(step, log) ==
    Put(step, "action_log",
        VList(Append((IF Has(step, "action_log") THEN Get(step, "action_log")
                      ELSE EmptyList).items, log)))

\* lines 713 to 718 on the step that the lookup r found
AppendActionLog(r, plan_id, log) ==
    IF r.raised THEN Raised
    ELSE PutStep(r.workspace, plan_id, r.step,
                 AppendLog(StepsOf(r.workspace, plan_id).items[r.step], log))

\* the body of the loop for key 'action_log'
ActionLog(workspace, output) ==
    IF ~IsDict(output) THEN workspace
    ELSE IF ~(Has(output, "plan_id") /\ Has(output, "plan_step")) THEN Raised
    ELSE AppendActionLog(
             get_or_create_step(workspace, Get(output, "plan_id").s, Get(output, "plan_step")),
             Get(output, "plan_id").s,
             CopyFields(EmptyDict, output,
                        <<"tool", "status", "nonce", "message", "type", "actionable">>))

\* the body of the loop for key 'plan_state'
PlanState(workspace, output) ==
    IF ~IsDict(output) THEN workspace
    ELSE IF ~Has(output, "plan_id") THEN workspace
    ELSE IF ~(Has(output, "status") \/ Has(output, "updated_at")) THEN workspace
    ELSE IF ~Has(workspace, "state_machine") THEN Raised
    ELSE Put2(workspace, "state_machine", Get(output, "plan_id").s,
              IF Has(output, "updated_at") THEN Get(output, "updated_at")
              ELSE Get(output, "status"))

\* the body of the loop for key 'desire' (lines 566 to 568) and, with the same
\* statements, for key 'action' (lines 609 to 611): output is the value after
\* the sanitize of line 496
ReplaceIfStr(workspace, field, output) ==
    IF IsStr(output) THEN Put2(workspace, "state", field, output)
    ELSE workspace

\* a plan branch that keeps the plan it was given first
PlanInsertOnce(workspace, output) ==
    IF ~IsDict(output) THEN workspace
    ELSE IF ~Has(output, "id") THEN Raised
    ELSE LET w1 == IF Has(workspace, "plan") THEN workspace
                   ELSE Put(workspace, "plan", EmptyDict)
         IN  IF Has(Get(w1, "plan"), Get(output, "id").s) THEN w1
             ELSE Put2(w1, "plan", Get(output, "id").s, sanitize(output))

\* a plan branch that keeps one plan only
PlanAlone(workspace, output) ==
    IF ~IsDict(output) THEN workspace
    ELSE IF ~Has(output, "id") THEN Raised
    ELSE Put(workspace, "plan", VMap(<<Get(output, "id").s>>, <<sanitize(output)>>))

\* the body of the loop for key 'plan' (lines 623 to 629)
Plan(workspace, output) ==
    IF ~IsDict(output) THEN workspace
    ELSE IF ~Has(output, "id") THEN Raised
    ELSE LET w1 == IF Has(workspace, "plan") THEN workspace
                   ELSE Put(workspace, "plan", EmptyDict)
         IN  Put2(w1, "plan", Get(output, "id").s, sanitize(output))

\* a loop that raises on a key it does not know
UnknownKeyRaises(workspace, key, output) == Raised

\* a key that no branch of the if/elif chain of lines 560 to 720 names: the
\* chain has no else, the pass does nothing
UnknownKey(workspace, key, output) == workspace

\* one pass of the loop `for key, output in changes.items()`: the workspace
\* after it, or Raised
ApplyChange(workspace, key, output, time) ==
    LET state == Get(workspace, "state")
    IN  CASE key = "belief" ->
                IF IsDict(output)
                THEN Put2(workspace, "state", "beliefs",
                          sanitize(MergeDict(Get(state, "beliefs"), sanitize(output))))
                ELSE workspace
          [] key = "desire" -> ReplaceIfStr(workspace, "desire", output)
          [] key = "intent" ->
                IF IsDict(output) THEN Put(workspace, "intent", sanitize(output))
                ELSE workspace
          [] key = "belief_history" ->
                IF IsDict(output)
                THEN Put2(workspace, "state", "history",
                          VList(AppendEvents(Get(state, "history").items, output, time)))
                ELSE workspace
          [] key = "cache" ->
                LET w1 == IF Has(workspace, "cache") THEN workspace
                          ELSE Put(workspace, "cache", EmptyDict)
                IN  IF IsDict(output)
                    THEN Put(w1, "cache", PutSanitized(Get(w1, "cache"), output))
                    ELSE IF IsList(output)
                    THEN Put2(w1, "cache", "results", sanitize(output))
                    ELSE w1
          [] key = "is_active" ->
                IF output.t = "bool" THEN Put(workspace, "data", output) ELSE workspace
          [] key = "action" -> ReplaceIfStr(workspace, "action", output)
          [] key = "follow_up" ->
                IF IsDict(output) THEN Put2(workspace, "state", "follow_up", sanitize(output))
                ELSE workspace
          [] key = "slots" ->
                IF IsDict(output) THEN Put2(workspace, "state", "slots", sanitize(output))
                ELSE workspace
          [] key = "plan" -> Plan(workspace, output)
          [] key = "new_state_machine" -> NewStateMachine(workspace, output)
          [] key = "step_state" -> StepState(workspace, output)
          [] key = "plan_state" -> PlanState(workspace, output)
          [] key = "action_log" -> ActionLog(workspace, output)
          [] OTHER -> UnknownKey(workspace, key, output)

\* the loop over changes.items() from entry i on
RECURSIVE ApplyChanges(_, _, _, _)
ApplyChanges(workspace, change_set, i, time) ==
    IF workspace = Raised \/ i > Len(change_set.ks) THEN workspace
    ELSE ApplyChanges(ApplyChange(workspace, change_set.ks[i], change_set.vs[i], time),
                      change_set, i + 1, time)

\* a selection that takes the first listed workspace instead of the last
SelectFirstWorkspace(items, workspace_id) ==
    IF Len(items) = 0 THEN Raised ELSE items[1]

\* the workspace mutate_workspace works on: the last of the list, or the last
\* one with the given id; Raised when none has it (the name stays unbound)
SelectWorkspace(items, workspace_id) ==
    IF ~Truthy(workspace_id)
    THEN IF Len(items) = 0 THEN Raised ELSE items[Len(items)]
    ELSE IF \E i \in 1..Len(items) : Get(items[i], "_id") = workspace_id
         THEN items[CHOOSE i \in 1..Len(items) :
                        /\ Get(items[i], "_id") = workspace_id
                        /\ \A j \in (i + 1)..Len(items) : Get(items[j], "_id") # workspace_id]
         ELSE Raised

\* a step 3 that hands the working copy over as it is
PersistedFormUnsanitized(workspace) == workspace

\* step 3 of mutate_workspace: what is handed to update_workspace_document
PersistedForm(workspace) == sanitize(workspace)

\* the working copy after each pass of the loop over changes.items() from
\* entry i on, ending with Raised when a pass raises; w is the working copy
\* after entry i - 1
RECURSIVE LoopStates(_, _, _, _)
LoopStates(w, change_set, i, time) ==
    IF i > Len(change_set.ks) \/ w = Raised THEN <<>>
    ELSE <<ApplyChange(w, change_set.ks[i], change_set.vs[i], time)>>
         \o LoopStates(ApplyChange(w, change_set.ks[i], change_set.vs[i], time),
                       change_set, i + 1, time)

\* lines 544 to 553: the selected workspace, sanitized, with a state
WorkingCopy(selected) == EnsureKey(sanitize(selected), "state", DefaultState)

\* the documents a loop that reaches its end hands to the store
HandedOver(w) ==
    IF w = Raised THEN [raised |-> TRUE, handed |-> <<>>]
    ELSE [raised |-> FALSE, handed |-> <<PersistedForm(w)>>]

\* the documents a loop that saves after every key hands to the store
HandedOverEachKey(ws) ==
    [raised |-> Len(ws) > 0 /\ ws[Len(ws)] = Raised,
     handed |-> [i \in 1..Len(SelectSeq(ws, LAMBDA w : w # Raised)) |-> PersistedForm(ws[i])]]

\* a mutate_workspace that saves the workspace after every key of the change set
MutateSavingEachKey(items, workspace_id, change_set, time) ==
    IF SelectWorkspace(items, workspace_id) = Raised
    THEN [raised |-> TRUE, handed |-> <<>>]
    ELSE HandedOverEachKey(
             LoopStates(WorkingCopy(SelectWorkspace(items, workspace_id)), change_set, 1, time))

\* mutate_workspace from the listed workspaces on (lines 535 to 733): whether
\* it raised before reaching step 3, and the documents it hands to
\* update_workspace_document (one, at the end, when nothing raised).
\* change_set is the sanitized changes of line 496.
MutateResult(items, workspace_id, change_set, time) ==
    IF SelectWorkspace(items, workspace_id) = Raised
    THEN [raised |-> TRUE, handed |-> <<>>]
    ELSE HandedOver(
             ApplyChanges(WorkingCopy(SelectWorkspace(items, workspace_id)), change_set, 1, time))

\* what mutate_workspace returns once update_workspace_document has answered
\* "ok" (success), "failed" (a response without 'success') or has "raised":
\* the answer is dropped (lines 730 to 734), only an exception turns into False
ReturnValue(outcome) == outcome # "raised"

-----------------------------------------------------------------------------
(* The workspace store: ChatController.list_workspaces, create_workspace,   *)
(* update_workspace, as mutate_workspace uses them                           *)

\* the document create_workspace stores for a thread that has n workspaces
NewWorkspace(n) == VMap(<<"_id">>, <<VStr("w" \o ToString(n + 1))>>)

\* update_workspace: the document with the same _id is replaced as a whole
ReplaceById(store, doc) ==
    [i \in 1..Len(store) |->
        IF Get(store[i], "_id") = Get(doc, "_id") THEN doc ELSE store[i]]

RECURSIVE ReplaceAll(_, _)
ReplaceAll(store, docs) ==
    IF Len(docs) = 0 THEN store
    ELSE ReplaceAll(ReplaceById(store, Head(docs)), Tail(docs))

-----------------------------------------------------------------------------
(* AgentUtilities.mutate_workspace: callers, inputs and steps *)

\* the in-flight cycles of the thread that may call mutate_workspace
Procs == {1, 2}

Step(id, status) == VMap(<<"step_id", "status">>, <<id, VStr(status)>>)
StateMachine(plan_id, steps) == VMap(<<"plan_id", "steps">>, <<VStr(plan_id), VList(steps)>>)
StepUpdate(plan_id, plan_step, status) ==
    VMap(<<"plan_id", "plan_step", "status">>, <<VStr(plan_id), plan_step, status>>)
Change(key, output) == VMap(<<key>>, <<output>>)
Change2(k1, o1, k2, o2) == VMap(<<k1, k2>>, <<o1, o2>>)

\* a workspace in which plan p1 is under way and a tool result is cached, as
\* the store returns it (the database hands numbers back as Decimal)
RunningWorkspace ==
    VMap(<<"_id", "state", "cache", "state_machine">>,
         << VStr("w1"),
            VMap(<<"beliefs", "desire", "intent", "history", "in_progress">>,
                 <<VMap(<<"a">>, <<VStr("x")>>), VStr("d0"), EmptyList, EmptyList, None>>),
            VMap(<<"irn:tool_rs:x/y">>,
                 <<VMap(<<"input", "output">>, <<EmptyDict, VDec(45)>>)>>),
            VMap(<<"p1">>,
                 <<StateMachine("p1",
                      << VMap(<<"step_id", "status", "action_log">>,
                              <<VStr("0"), VStr("running"),
                                VList(<<VMap(<<"tool", "nonce">>, <<VStr("t"), VDec(70)>>)>>)>>),
                         Step(VDec(10), "pending") >>)>>) >>)

InitialStores == { <<>>, <<NewWorkspace(0)>>, <<RunningWorkspace>> }

ChangeSets ==
    { Change("belief", VMap(<<"a">>, <<VStr("y")>>)),
      Change("belief", VMap(<<"b", "c">>, <<VDec(25), VFloat(15)>>)),
      Change("belief", VMap(<<"c", "a">>, <<VMap(<<"n">>, <<VInt(1)>>), VStr("w")>>)),
      Change("desire", VStr("d1")),
      Change("cache", VMap(<<"irn:tool_rs:x/y">>,
                           <<VMap(<<"input", "output">>, <<EmptyDict, VDec(30)>>)>>)),
      Change("belief_history", VMap(<<"a", "b">>, <<VStr("y"), VDec(25)>>)),
      Change("plan", VMap(<<"id", "steps">>, <<VStr("p1"), VList(<<VStr("0"), VStr("1")>>)>>)),
      Change("new_state_machine",
             StateMachine("p1", <<Step(VStr("0"), "pending"), Step(VInt(1), "pending")>>)),
      Change("new_state_machine", StateMachine("p1", <<Step(VStr("0"), "fresh")>>)),
      Change("step_state", StepUpdate("p1", VStr("0"), VStr("executed"))),
      Change("step_state", StepUpdate("p1", VInt(1), VDec(25))),
      Change("step_state", StepUpdate("p1", VStr("9"), VStr("running"))),
      Change("step_state", StepUpdate("p2", VStr("0"), VStr("running"))),
      Change("action_log",
             VMap(<<"plan_id", "plan_step", "tool", "status">>,
                  <<VStr("p1"), VStr("0"), VStr("t"), VInt(3)>>)),
      Change("plan_state", VMap(<<"plan_id", "status">>, <<VStr("p1"), VStr("done")>>)),
      Change("foo", VInt(1)),
      Change2("belief", VMap(<<"a">>, <<VStr("z")>>),
              "step_state", StepUpdate("p1", VStr("9"), VStr("running"))),
      Change2("desire", VStr("d2"),
              "action_log", VMap(<<"plan_id", "plan_step", "tool">>,
                                 <<VStr("p1"), VStr("7"), VStr("t")>>)) }

\* self.thread of the caller: a thread id, or none
Threads == {VStr("t1"), VStr("")}
WorkspaceIds == {None}

Now == VStr("T" \o ToString(clock))

\* lines 485 to 498: the call begins; without a thread id it returns False
CallBody(p, thread, chg, workspace_id) ==
    /\ pcw[p] \in {"idle", "done"}
    /\ changes' = [changes EXCEPT ![p] = chg]
    /\ wsid' = [wsid EXCEPT ![p] = workspace_id]
    /\ listed' = [listed EXCEPT ![p] = <<>>]
    /\ sent' = [sent EXCEPT ![p] = <<>>]
    /\ pre' = [pre EXCEPT ![p] = workspaces]
    /\ seen' = [seen EXCEPT ![p] = Len(writes)]
    /\ IF Truthy(thread)
       THEN /\ pcw' = [pcw EXCEPT ![p] = "list"]
            /\ ret' = [ret EXCEPT ![p] = None]
       ELSE /\ pcw' = [pcw EXCEPT ![p] = "done"]
            /\ ret' = [ret EXCEPT ![p] = VBool(FALSE)]
    /\ UNCHANGED <<workspaces, writes, clock>>

\* a call of mutate_workspace from outside; at most MaxCalls of them
Call(p, thread, chg, workspace_id) ==
    /\ calls < MaxCalls
    /\ calls' = calls + 1
    /\ CallBody(p, thread, chg, workspace_id)
    /\ UNCHANGED notWs

\* lines 502 to 514: list_workspaces answers, with success or without
ListWorkspaces(p) ==
    /\ pcw[p] = "list"
    /\ \E success \in BOOLEAN :
          IF success
          THEN /\ listed' = [listed EXCEPT ![p] = workspaces]
               /\ seen' = [seen EXCEPT ![p] = Len(writes)]
               /\ pcw' = [pcw EXCEPT ![p] = IF Len(workspaces) = 0 THEN "create" ELSE "apply"]
               /\ ret' = ret
          ELSE /\ listed' = listed
               /\ seen' = seen
               /\ pcw' = [pcw EXCEPT ![p] = "done"]
               /\ ret' = [ret EXCEPT ![p] = VBool(FALSE)]
    /\ UNCHANGED <<workspaces, writes, calls, clock, changes, wsid, sent, pre, notWs>>

\* lines 516 to 524: create_workspace answers, with success or without
CreateWorkspace(p) ==
    /\ pcw[p] = "create"
    /\ \E success \in BOOLEAN :
          IF success
          THEN /\ workspaces' = Append(workspaces, NewWorkspace(Len(workspaces)))
               /\ pcw' = [pcw EXCEPT ![p] = "relist"]
               /\ ret' = ret
          ELSE /\ workspaces' = workspaces
               /\ pcw' = [pcw EXCEPT ![p] = "done"]
               /\ ret' = [ret EXCEPT ![p] = VBool(FALSE)]
    /\ UNCHANGED <<writes, calls, clock, changes, wsid, listed, sent, pre, seen, notWs>>

\* lines 526 to 532: the second list_workspaces; its success is not looked at,
\* and an answer without items makes line 536 raise
Relist(p) ==
    /\ pcw[p] = "relist"
    /\ \E success \in BOOLEAN :
          IF success
          THEN /\ listed' = [listed EXCEPT ![p] = workspaces]
               /\ seen' = [seen EXCEPT ![p] = Len(writes)]
               /\ pcw' = [pcw EXCEPT ![p] = "apply"]
               /\ ret' = ret
          ELSE /\ listed' = listed
               /\ seen' = seen
               /\ pcw' = [pcw EXCEPT ![p] = "done"]
               /\ ret' = [ret EXCEPT ![p] = VBool(FALSE)]
    /\ UNCHANGED <<workspaces, writes, calls, clock, changes, wsid, sent, pre, notWs>>

\* the end of a call whose loop gave r: the store answers update_workspace
\* with success, with a failure or by raising
Finish(p, r) ==
    /\ sent' = [sent EXCEPT ![p] = r.handed]
    /\ IF r.raised
       THEN /\ workspaces' = ReplaceAll(workspaces, r.handed)
            /\ writes' = writes
            /\ ret' = [ret EXCEPT ![p] = VBool(FALSE)]
       ELSE \E outcome \in {"ok", "failed", "raised"} :
               /\ workspaces' = IF outcome = "ok"
                                THEN ReplaceAll(workspaces, r.handed)
                                ELSE workspaces
               /\ writes' = IF outcome = "ok" THEN Append(writes, p) ELSE writes
               /\ ret' = [ret EXCEPT ![p] = VBool(ReturnValue(outcome))]

\* lines 535 to 738: the workspace is selected and sanitized, the changes are
\* applied to the working copy, and the result is handed to
\* update_workspace_document
Apply(p) ==
    /\ pcw[p] = "apply"
    /\ Finish(p, MutateResult(listed[p], wsid[p], sanitize(changes[p]), Now))
    /\ pcw' = [pcw EXCEPT ![p] = "done"]
    /\ clock' = clock + 1
    /\ UNCHANGED <<calls, changes, wsid, listed, pre, seen, notWs>>

-----------------------------------------------------------------------------
(* AgentUtilities.save_chat and the transcript store *)

\* d.get(k)
GetOrNone(d, k) == IF Has(d, k) THEN Get(d, k) ELSE None

\* ChatController.update_turn: without a call id the message goes to the end of
\* the transcript; with one it takes the place of the tool_rs message that
\* carries this tool_call_id (the last one), and goes to the end when there is none
update_turn(msgs, doc, call_id) ==
    LET slot(i) == /\ Get(msgs[i], "_type") = VStr("tool_rs")
                   /\ GetOrNone(Get(msgs[i], "_out"), "tool_call_id") = call_id
    IN  IF call_id # VBool(FALSE) /\ \E i \in 1..Len(msgs) : slot(i)
        THEN [msgs EXCEPT ![CHOOSE i \in 1..Len(msgs) :
                                slot(i) /\ \A j \in (i + 1)..Len(msgs) : ~slot(j)] = doc]
        ELSE Append(msgs, doc)

\* a placeholder that names the tool instead of the tool call
rs_template_by_name(tool_call) ==
    VMap(<<"role", "tool_call_id", "content">>,
         <<VStr("tool"), Get(Get(tool_call, "function"), "name"), EmptyList>>)

\* lines 276 to 280: the placeholder of one tool call
rs_template(tool_call) ==
    VMap(<<"role", "tool_call_id", "content">>,
         <<VStr("tool"), Get(tool_call, "id"), EmptyList>>)

\* the documents save_chat builds (lines 248, 258, 267, 282, 289, 304)
ConsentDoc(output, interface, next) ==
    VMap(<<"_out", "_type", "_interface", "_next">>,
         <<sanitize(output), VStr("consent"),
           IF Truthy(interface) THEN interface ELSE VStr("binary_consent"), next>>)
WidgetDoc(output, interface) ==
    VMap(<<"_out", "_type", "_interface">>,
         <<sanitize(output), VStr("widget"),
           IF Truthy(interface) THEN interface ELSE VStr("")>>)
MessageDoc(output, message_type, next) ==
    VMap(<<"_out", "_type", "_next">>, <<sanitize(output), VStr(message_type), next>>)
PlaceholderDoc(tool_call, next) ==
    VMap(<<"_out", "_type", "_next">>, <<rs_template(tool_call), VStr("tool_rs"), next>>)
ToolResponseDoc(output, interface, next) ==
    VMap(<<"_out", "_type", "_interface", "_next">>,
         <<sanitize(output), VStr("tool_rs"), interface, next>>)

\* the branch of save_chat that a call takes (lines 242, 252, 263, 285, 298)
Branch(output, msg_type) ==
    IF msg_type = VStr("consent") THEN "consent"
    ELSE IF msg_type = VStr("widget") THEN "widget"
    ELSE IF Truthy(GetOrNone(output, "tool_calls"))
            /\ GetOrNone(output, "role") = VStr("assistant") THEN "tool_rq"
    ELSE IF Truthy(GetOrNone(output, "content"))
            /\ GetOrNone(output, "role") = VStr("assistant") THEN "text"
    ELSE IF Has(output, "tool_call_id") /\ Has(output, "role")
            /\ Get(output, "role") = VStr("tool") THEN "tool_rs"
    ELSE "none"

\* the first document a call stores, and the call id it stores it under
FirstDoc(c) ==
    CASE Branch(c.output, c.msg_type) = "consent" -> ConsentDoc(c.output, c.interface, c.next)
      [] Branch(c.output, c.msg_type) = "widget" -> WidgetDoc(c.output, c.interface)
      [] Branch(c.output, c.msg_type) = "tool_rq" -> MessageDoc(c.output, "tool_rq", c.next)
      [] Branch(c.output, c.msg_type) = "text" -> MessageDoc(c.output, "text", c.next)
      [] OTHER -> ToolResponseDoc(c.output, c.interface, c.next)
FirstCallId(c) ==
    IF Branch(c.output, c.msg_type) = "tool_rs" THEN Get(c.output, "tool_call_id")
    ELSE VBool(FALSE)

\* whether the branch goes on to print_chat (lines 250, 260, 294, 332)
Prints(c) ==
    \/ Branch(c.output, c.msg_type) \in {"consent", "widget", "text"}
    \/ Branch(c.output, c.msg_type) = "tool_rs" /\ Truthy(c.interface)

\* a caller that is not in save_chat
IdleChat(pc) ==
    [pc |-> pc, output |-> None, msg_type |-> None, interface |-> None, next |-> None,
     k |-> 0, base |-> <<>>, lost |-> FALSE]

\* the messages handed to save_chat: assistant messages that passed the
\* validator, with tool calls or with text, and tool responses
SavedToolCalls(n) == { tc \in SeqsUpTo(GoodToolCalls, n) : Len(tc) >= 1 }
ToolCallOutputs ==
    { VMap(<<"role", "content", "tool_calls">>, <<VStr("assistant"), None, VList(tc)>>) :
        tc \in SavedToolCalls(MaxToolCalls) }
    \cup { VMap(<<"role", "content", "tool_calls">>,
                <<VStr("assistant"), VStr("hi"), VList(<<tc>>)>>) : tc \in GoodToolCalls }
TextOutputs ==
    { VMap(<<"role", "content">>, <<VStr("assistant"), VStr("hi")>>),
      VMap(<<"role", "content", "tool_calls">>, <<VStr("assistant"), VStr(""), EmptyList>>) }
ToolOutputs ==
    { VMap(<<"role", "tool_call_id", "content">>, <<VStr("tool"), VStr("1"), VStr("{}")>>) }
Interfaces == {None, VStr("flights")}

\* the arguments of a save_chat call: output, msg_type, interface
SaveChatCalls ==
    { <<m, None, None>> : m \in ToolCallOutputs \cup TextOutputs }
    \cup { <<m, t, i>> : m \in TextOutputs, t \in {VStr("consent"), VStr("widget")},
                         i \in Interfaces }
    \cup { <<m, VStr("consent"), None>> : m \in ToolCallOutputs }
    \cup { <<m, None, i>> : m \in ToolOutputs, i \in Interfaces }

\* the transcripts save_chat may find: an empty one, and one that ends with a
\* tool call and its placeholder
Transcripts ==
    { <<>>,
      << VMap(<<"_out", "_type", "_next">>,
              <<VMap(<<"role", "content", "tool_calls">>,
                     <<VStr("assistant"), None,
                       VList(<<ToolCall(VStr("1"), VStr("function"),
                                        Function(VStr("x"), VStr("{}")))>>)>>),
                VStr("tool_rq"), None>>),
         VMap(<<"_out", "_type", "_next">>,
              <<VMap(<<"role", "tool_call_id", "content">>,
                     <<VStr("tool"), VStr("1"), EmptyList>>),
                VStr("tool_rs"), None>>) >> }

\* a caller that has entered save_chat and found the transcript msgs
Started(output, msg_type, interface, msgs) ==
    [pc |-> IF Branch(output, msg_type) = "none" THEN "done" ELSE "store",
     output |-> output, msg_type |-> msg_type, interface |-> interface,
     next |-> None, k |-> 0, base |-> msgs, lost |-> FALSE]

\* line 224: save_chat is called; a message no branch takes is dropped
SaveChat(p, output, msg_type, interface) ==
    /\ chat[p].pc \in {"idle", "done"}
    /\ saves < MaxSaves
    /\ saves' = saves + 1
    /\ chat' = [chat EXCEPT ![p] = Started(output, msg_type, interface, transcript)]
    /\ UNCHANGED <<transcript, pushed, printed, channel, notChat>>

\* update_chat_message_document for the first document of the call: the store
\* takes it, or answers without success or raises (lines 183 to 191), which
\* save_chat does not look at
StoreMessage(p) ==
    /\ chat[p].pc = "store"
    /\ \E stored \in BOOLEAN :
          /\ transcript' = IF stored
                           THEN update_turn(transcript, FirstDoc(chat[p]), FirstCallId(chat[p]))
                           ELSE transcript
          /\ chat' = [chat EXCEPT
                         ![p].lost = ~stored,
                         ![p].k = 1,
                         ![p].pc = IF Branch(chat[p].output, chat[p].msg_type) = "tool_rq"
                                   THEN "placeholders"
                                   ELSE IF Prints(chat[p]) THEN "print" ELSE "done"]
    /\ UNCHANGED <<pushed, printed, channel, saves, notChat>>

\* lines 275 to 283: one pass of the loop over output['tool_calls']
StorePlaceholder(p) ==
    /\ chat[p].pc = "placeholders"
    /\ chat[p].k <= Len(Get(chat[p].output, "tool_calls").items)
    /\ \E stored \in BOOLEAN :
          /\ transcript' =
                 IF stored
                 THEN update_turn(transcript,
                                  PlaceholderDoc(Get(chat[p].output, "tool_calls").items[chat[p].k],
                                                 chat[p].next),
                                  VBool(FALSE))
                 ELSE transcript
          /\ chat' = [chat EXCEPT
                         ![p].lost = chat[p].lost \/ ~stored,
                         ![p].k = chat[p].k + 1,
                         ![p].pc = IF chat[p].k = Len(Get(chat[p].output, "tool_calls").items)
                                   THEN "done" ELSE "placeholders"]
    /\ UNCHANGED <<pushed, printed, channel, saves, notChat>>

\* the live channel of a caller: the connection id of its context, and whether
\* the WebSocket client is configured (is_configured, lines 62 to 67 of
\* websocket_client.py)
Channel(connection_id, configured) ==
    [connection_id |-> connection_id, configured |-> configured]
LiveChannel == Channel(VStr("c1"), TRUE)
NoChannel == Channel(None, FALSE)
Channels == { Channel(c, w) : c \in {None, VStr(""), VStr("c1")}, w \in BOOLEAN }

\* WebSocketClient.send_message: nothing is sent without a connection id or a
\* configured client; else the post is accepted, or it fails and the except
\* clauses answer False
send_message(connection_id, configured, accepted) ==
    IF ~Truthy(connection_id) \/ ~configured THEN FALSE ELSE accepted

\* a print_chat that posts whatever the context holds
print_chat_unguarded(connection_id, configured, accepted, doc) ==
    [returned |-> accepted, posted |-> IF accepted THEN <<doc>> ELSE <<>>]

\* lines 418 to 431 of print_chat: what it returns and what reaches the channel
print_chat(connection_id, configured, accepted, doc) ==
    IF ~Truthy(connection_id) THEN [returned |-> FALSE, posted |-> <<>>]
    ELSE IF ~configured THEN [returned |-> FALSE, posted |-> <<>>]
    ELSE [returned |-> send_message(connection_id, configured, accepted),
          posted |-> IF send_message(connection_id, configured, accepted)
                     THEN <<doc>> ELSE <<>>]

\* print_chat(doc, message_type, as_is=True) at the end of a branch of
\* save_chat: the live channel gets the stored document, or it gets nothing
PrintChat(p) ==
    /\ chat[p].pc = "print"
    /\ \E accepted \in BOOLEAN :
          /\ pushed' = pushed \o print_chat(channel.connection_id, channel.configured,
                                            accepted, FirstDoc(chat[p])).posted
          /\ printed' = Append(printed,
                               print_chat(channel.connection_id, channel.configured,
                                          accepted, FirstDoc(chat[p])).returned)
    /\ chat' = [chat EXCEPT ![p].pc = "done"]
    /\ UNCHANGED <<transcript, channel, saves, notChat>>

\* line 224: save_chat is called by one of the stages at work on the thread,
\* each of which saves one message
SaveChatOnce(p, output) ==
    /\ chat[p].pc = "idle"
    /\ saves' = saves + 1
    /\ chat' = [chat EXCEPT ![p] = Started(output, None, None, transcript)]
    /\ UNCHANGED <<transcript, pushed, printed, channel, notChat>>

-----------------------------------------------------------------------------
(* AgentUtilities.interpret and AgentUtilities.act *)

\* a caller that is in neither
IdleStage(pc) ==
    [pc |-> pc, op |-> "", thread |-> None, plan |-> None, list_tools |-> None,
     handler |-> None, response |-> None, result |-> None, error |-> "",
     base |-> <<>>, heard |-> <<>>, store |-> <<>>, workspace |-> None, belief_str |-> None,
     no_tools |-> FALSE, list_actions |-> None, tools |-> None,
     last_belief |-> None, todo |-> <<>>]

\* the result dict the stages return
Result(success, action, input, output) ==
    [success |-> success, action |-> action, input |-> input, output |-> output]

\* print_chat(<text>, type), lines 411 to 413: what the live channel is sent
NoticeDoc(text, type) ==
    VMap(<<"_out", "_type", "_next:">>,
         <<VMap(<<"role", "content">>, <<VStr("assistant"), VStr(text)>>), VStr(type), None>>)

\* the list_tools argument: one entry per tool, with the route of its handler
Tool(key, handler) == VMap(<<"key", "handler">>, <<VStr(key), VStr(handler)>>)
ListTools ==
    { VList(<<>>), VList(<<Tool("x", "e/h")>>), VList(<<Tool("x", "")>>),
      VList(<<Tool("x", "eh")>>) }

\* the plan argument of act: an assistant message with tool calls, one whose
\* tool call names no tool, and one without tool_calls
Plans(n) ==
    { VMap(<<"role", "content", "tool_calls">>, <<VStr("assistant"), None, VList(tc)>>) :
        tc \in SavedToolCalls(n) }
    \cup { VMap(<<"role", "content", "tool_calls">>,
                <<VStr("assistant"), None,
                  VList(<<ToolCall(VStr("1"), VStr("function"),
                                   Function(VStr(""), VStr("{}")))>>)>>),
           VMap(<<"role", "content">>, <<VStr("assistant"), VStr("hi")>>) }

\* SchdController.handler_call: what the dispatcher answers when it is called
HandlerResponses ==
    { VMap(<<"success", "output">>, <<VBool(TRUE), VMap(<<"a">>, <<VInt(1)>>)>>),
      VMap(<<"success", "output">>, <<VBool(FALSE), EmptyList>>) }

\* the ids of the tool calls of a plan, in order
CallIds(plan) ==
    IF IsDict(plan) /\ Has(plan, "tool_calls") /\ IsList(Get(plan, "tool_calls"))
    THEN [i \in 1..Len(Get(plan, "tool_calls").items) |->
              Get(Get(plan, "tool_calls").items[i], "id")]
    ELSE <<>>

\* an act that reads its parameter list_tools and hands every tool call of the
\* plan to the dispatcher
act_every_call(plan, list_tools, handler) ==
    [raised |-> FALSE, error |-> "",
     result |-> Result(Get(handler, "success").b, "act", plan, Get(handler, "output")),
     calls |-> CallIds(plan)]

\* lines 1804 to 1809: act fills list_handlers in a loop over list_tools_raw, a
\* name that neither act nor the module binds (the parameter is list_tools).
\* Evaluating it raises NameError ahead of the try of line 1814, so the call
\* ends there whatever its arguments are: no handler is called, nothing is
\* stored, and lines 1811 to 1943 are never reached
act(plan, list_tools, handler) ==
    [raised |-> TRUE, error |-> "NameError", result |-> None, calls |-> <<>>]

\* line 1804: act is called; handler is what the dispatcher answers if asked
Act(p, plan, list_tools, handler) ==
    /\ stage[p].pc = "idle"
    /\ stage' = [stage EXCEPT ![p] =
                    [pc |-> IF act(plan, list_tools, handler).raised THEN "raised" ELSE "done",
                     op |-> "act", thread |-> VStr("t1"), plan |-> plan,
                     list_tools |-> list_tools, handler |-> handler, response |-> None,
                     result |-> act(plan, list_tools, handler).result,
                     error |-> act(plan, list_tools, handler).error,
                     base |-> transcript, heard |-> pushed, store |-> workspaces,
                     workspace |-> None, belief_str |-> None,
                     no_tools |-> FALSE, list_actions |-> None, tools |-> None,
     last_belief |-> None, todo |-> <<>>]]
    /\ dispatched' = dispatched \o act(plan, list_tools, handler).calls
    /\ UNCHANGED <<chatVars, notStage>>

\* what the model answers to the prompt of interpret: False when the call
\* failed (llm, lines 780 to 782), else its message
LlmResponses(n) ==
    { VBool(FALSE),
      VMap(<<"role", "content">>, <<VStr("user"), VStr("hi")>>),
      VMap(<<"role", "content">>, <<VStr("assistant"), VStr("hi")>>),
      VMap(<<"role", "content">>, <<VStr("assistant"), VStr("")>>),
      VMap(<<"role", "content">>, <<VStr("assistant"), VInt(5)>>),
      VMap(<<"role", "content", "tool_calls">>, <<VStr("assistant"), None, None>>),
      VMap(<<"role", "content", "tool_calls">>, <<VStr("assistant"), None, EmptyList>>),
      VMap(<<"role", "content", "tool_calls">>, <<VStr("assistant"), VStr("hi"), EmptyList>>),
      VMap(<<"role", "content", "tool_calls">>,
           <<VStr("assistant"), None,
             VList(<<ToolCall(VStr("1"), VStr("code"), Function(VStr("x"), VStr("{}")))>>)>>),
      VMap(<<"role", "content", "tool_calls">>,
           <<VStr("assistant"), None,
             VList(<<ToolCall(VStr("1"), VStr("function"),
                              Function(VStr("x"), VStr("{a: 1")))>>)>>) }
    \cup { VMap(<<"role", "content", "tool_calls">>, <<VStr("assistant"), c, VList(tc)>>) :
             c \in {None, VStr("hi")}, tc \in SavedToolCalls(n) }

\* interpret hands nothing to save_chat
Nothing == [t |-> "nothing"]

\* an interpret that saves the message of the model before it is validated
ToSaveUnvalidated(response) ==
    IF ~Truthy(response) THEN Nothing ELSE response

\* lines 1761 to 1782: what interpret hands to save_chat: nothing when the call
\* failed or the message did not pass the validator, else the validated message
ToSave(response) ==
    IF ~Truthy(response) THEN Nothing
    ELSE IF ~validate_interpret_openai_llm_response(response).success THEN Nothing
    ELSE validate_interpret_openai_llm_response(response).output

\* lines 1761 to 1790: what interpret returns for an answer of the model
interpret_result(response) ==
    IF ~Truthy(response) THEN Result(FALSE, "interpret", VStr(""), response)
    ELSE IF ~validate_interpret_openai_llm_response(response).success
    THEN Result(FALSE, "interpret", response,
                validate_interpret_openai_llm_response(response))
    ELSE Result(TRUE, "interpret", VStr("prompt"),
                validate_interpret_openai_llm_response(response).output)

\* sep.join(strings)
RECURSIVE JoinWith(_, _)
JoinWith(strings, sep) ==
    IF Len(strings) = 0 THEN ""
    ELSE IF Len(strings) = 1 THEN Head(strings)
    ELSE Head(strings) \o sep \o JoinWith(Tail(strings), sep)

\* repr(x) of a value the sanitizer leaves: a string in quotes, a list and a
\* dict with the repr of their members
RECURSIVE ReprOf(_)
ReprOf(v) ==
    CASE v.t = "str" -> "'" \o v.s \o "'"
      [] v.t = "list" ->
            "[" \o JoinWith([i \in 1..Len(v.items) |-> ReprOf(v.items[i])], ", ") \o "]"
      [] v.t = "map" ->
            "{" \o JoinWith([i \in 1..Len(v.ks) |->
                                "'" \o v.ks[i] \o "': " \o ReprOf(v.vs[i])], ", ") \o "}"
      [] OTHER -> StrOf(v)

\* lines 1075 to 1080 of string_from_object: a string as it is, anything else
\* through str()
FormatValue(v) == IF v.t \in {"list", "map"} THEN ReprOf(v) ELSE StrOf(v)

\* AgentUtilities.string_from_object
string_from_object(object) ==
    IF ~Truthy(object) THEN ""
    ELSE JoinWith([i \in 1..Len(object.ks) |->
                      object.ks[i] \o " = " \o FormatValue(object.vs[i])], ", ")

\* AgentUtilities.get_active_workspace(): False when the store does not list
\* the workspaces or lists none, else the last one, sanitized
get_active_workspace(success, items) ==
    IF ~success THEN VBool(FALSE)
    ELSE IF Len(items) = 0 THEN VBool(FALSE)
    ELSE sanitize(items[Len(items)])

\* workspace.get('state', {}).get('beliefs', {}) if workspace else {}
current_beliefs(workspace) ==
    IF ~Truthy(workspace) THEN EmptyDict
    ELSE IF ~Has(workspace, "state") THEN EmptyDict
    ELSE IF ~Has(Get(workspace, "state"), "beliefs") THEN EmptyDict
    ELSE Get2(workspace, "state", "beliefs")

\* lines 1624 and 1625 of interpret
belief_str(workspace) ==
    VStr("Current beliefs: " \o string_from_object(current_beliefs(workspace)))

\* line 1610 of interpret: workspace.get('state', {}).get('action', '') if
\* workspace else ''
current_action(workspace) ==
    IF ~Truthy(workspace) THEN VStr("")
    ELSE IF ~Has(workspace, "state") THEN VStr("")
    ELSE IF ~Has(Get(workspace, "state"), "action") THEN VStr("")
    ELSE Get2(workspace, "state", "action")

\* lines 1614 to 1621: the tools_reference of the first action whose key is the
\* current action, '' when it has none, when it is empty or one of '_', '-',
\* '.', or when no action has the key
RECURSIVE action_tools(_, _, _)
action_tools(list_actions, action, i) ==
    IF i > Len(list_actions) THEN VStr("")
    ELSE IF Get(list_actions[i], "key") # action THEN action_tools(list_actions, action, i + 1)
    ELSE IF /\ Has(list_actions[i], "tools_reference")
            /\ Truthy(Get(list_actions[i], "tools_reference"))
            /\ Get(list_actions[i], "tools_reference") \notin {VStr("_"), VStr("-"), VStr(".")}
         THEN Get(list_actions[i], "tools_reference")
         ELSE VStr("")

\* [tool.strip() for tool in text.split(',')] on the texts of the model
AllowLists ==
    { [text |-> "x", keys |-> <<"x">>],
      [text |-> "x, y", keys |-> <<"x", "y">>],
      [text |-> " y ,w", keys |-> <<"y", "w">>],
      [text |-> "_,x", keys |-> <<"_", "x">>] }
split_strip(text) == (CHOOSE e \in AllowLists : e.text = text).keys

\* lines 1657 to 1664: approved_tools; raised when the reference is not a
\* string (it has no split)
approved_tools(reference, no_tools) ==
    IF Truthy(reference) /\ ~no_tools
    THEN IF IsStr(reference) THEN [raised |-> FALSE, keys |-> split_strip(reference.s)]
         ELSE [raised |-> TRUE, keys |-> <<>>]
    ELSE [raised |-> FALSE, keys |-> <<>>]

\* lines 1702 to 1720: the parameters of a tool from its parsed input, a list
\* of {name, hint, required} or, in the old format, a dict
ParamsOfList(items) ==
    LET named == SelectSeq(items, LAMBDA q : IsDict(q) /\ Has(q, "name") /\ Has(q, "hint"))
        needed == SelectSeq(named, LAMBDA q : Has(q, "required") /\ Truthy(Get(q, "required")))
    IN  VMap(<<"type", "properties", "required">>,
             << VStr("object"),
                VMap([i \in 1..Len(named) |-> Get(named[i], "name").s],
                     [i \in 1..Len(named) |->
                         VMap(<<"type", "description">>,
                              <<VStr("string"), Get(named[i], "hint")>>)]),
                VList([i \in 1..Len(needed) |-> Get(needed[i], "name")]) >>)
ParamsOfDict(d) ==
    VMap(<<"type", "properties", "required">>,
         << VStr("object"),
            VMap(d.ks, [i \in 1..Len(d.ks) |->
                           VMap(<<"type", "description">>, <<VStr("string"), d.vs[i]>>)]),
            VList([i \in 1..Len(d.ks) |-> VStr(d.ks[i])]) >>)
ToolParameters(tool_input) ==
    IF IsList(tool_input) THEN ParamsOfList(tool_input.items)
    ELSE IF IsDict(tool_input) THEN ParamsOfDict(tool_input)
    ELSE ParamsOfList(<<>>)

\* lines 1695 to 1737: the schema of a tool of the catalog; an input that is
\* not JSON counts as the empty list
ToolSchema(t) ==
    VMap(<<"type", "function">>,
         << VStr("function"),
            VMap(<<"name", "description", "parameters">>,
                 << IF Has(t, "key") THEN Get(t, "key") ELSE VStr(""),
                    IF Has(t, "goal") THEN Get(t, "goal") ELSE VStr(""),
                    ToolParameters(
                        IF json_loads(IF Has(t, "input") THEN Get(t, "input").s ELSE "[]")
                              = JsonError
                        THEN EmptyList
                        ELSE json_loads(IF Has(t, "input") THEN Get(t, "input").s
                                        ELSE "[]")) >>) >>)

\* an interpret that offers the whole catalog
available_tools_unfiltered(no_tools, list_tools, approved) ==
    IF no_tools THEN None
    ELSE VList([i \in 1..Len(list_tools) |-> ToolSchema(list_tools[i])])

\* lines 1685 to 1739: the tools of the prompt: None with no_tools, else the
\* schemas of the tools of the catalog whose key is approved
available_tools(no_tools, list_tools, approved) ==
    IF no_tools THEN None
    ELSE LET kept == SelectSeq(list_tools,
                               LAMBDA t : Has(t, "key") /\ IsStr(Get(t, "key"))
                                          /\ Get(t, "key").s \in Range(approved))
         IN  VList([i \in 1..Len(kept) |-> ToolSchema(kept[i])])

\* lines 1581 to 1753: interpret is called. It sends the notice of line 1584 to
\* the live channel (which takes it, or there is no connection) and reads the
\* transcript; without a thread id, or when the store does not list the turns,
\* get_message_history answers with a text in place of the messages, line 1598
\* fails on it and the except of line 1792 returns the failure. Else it reads
\* the active workspace (line 1607), renders its beliefs (line 1625), picks
\* the tools of the current action and builds the prompt; a tools_reference
\* that is no string makes line 1662 raise, which the except turns into a
\* failure as well
InterpretWith(p, thread, no_tools, list_actions, list_tools) ==
    /\ stage[p].pc = "idle"
    /\ \E accepted \in BOOLEAN, turns_listed \in BOOLEAN, workspaces_listed \in BOOLEAN :
       \E workspace \in {get_active_workspace(workspaces_listed, workspaces)} :
       \E approved \in {approved_tools(action_tools(list_actions, current_action(workspace), 1),
                                        no_tools)} :
       \E notice \in {print_chat(channel.connection_id, channel.configured, accepted,
                                  NoticeDoc("Interpreting message...", "transient"))} :
       \E read \in {Truthy(thread) /\ turns_listed} :
       \E prompted \in {read /\ ~approved.raised} :
          /\ pushed' = pushed \o notice.posted
          /\ printed' = Append(printed, notice.returned)
          /\ stage' = [stage EXCEPT ![p] =
                          [pc |-> IF prompted THEN "llm" ELSE "done",
                           op |-> "interpret", thread |-> thread, plan |-> None,
                           list_tools |-> VList(list_tools), handler |-> None, response |-> None,
                           result |-> IF prompted THEN None
                                      ELSE IF read
                                      THEN Result(FALSE, "interpret", VStr(""),
                                                  VStr("'list' object has no attribute 'split'"))
                                      ELSE Result(FALSE, "interpret", VStr(""),
                                                  VStr("'str' object has no attribute 'get'")),
                           error |-> "",
                           base |-> transcript, heard |-> pushed, store |-> workspaces,
                           workspace |-> IF read THEN workspace ELSE None,
                           belief_str |-> IF read THEN belief_str(workspace) ELSE None,
                           no_tools |-> no_tools, list_actions |-> VList(list_actions),
                           tools |-> IF prompted
                                     THEN available_tools(no_tools, list_tools, approved.keys)
                                     ELSE None,
                           last_belief |-> None, todo |-> <<>>]]
    /\ UNCHANGED <<transcript, channel, chat, saves, dispatched, notStage>>

\* interpret() with its defaults: no_tools=False, list_actions=[], list_tools=[]
Interpret(p, thread) == InterpretWith(p, thread, FALSE, <<>>, <<>>)

\* line 1399 of pre_process_message: last_belief, read under the key 'belief'
last_belief(workspace) ==
    IF ~Truthy(workspace) THEN EmptyDict
    ELSE IF ~Has(workspace, "state") THEN EmptyDict
    ELSE IF ~Has(Get(workspace, "state"), "belief") THEN EmptyDict
    ELSE Get2(workspace, "state", "belief")

\* lines 1381 to 1538 of pre_process_message: the notice, the workspace is
\* read, and the prompt is built; its section "Current Belief" is the JSON
\* text of last_belief, kept here as the mapping that text stands for
PreProcessMessage(p, thread) ==
    /\ stage[p].pc \in {"idle", "done"}
    /\ pcw[p] \in {"idle", "done"}
    /\ calls < MaxCalls
    /\ calls' = calls + 1
    /\ \E accepted \in BOOLEAN, workspaces_listed \in BOOLEAN :
          LET workspace == get_active_workspace(workspaces_listed, workspaces)
          IN
          /\ pushed' = pushed \o print_chat(channel.connection_id, channel.configured, accepted,
                                            NoticeDoc("Pre-processing message...", "transient")).posted
          /\ printed' = Append(printed,
                               print_chat(channel.connection_id, channel.configured, accepted,
                                          NoticeDoc("Pre-processing message...", "transient")).returned)
          /\ stage' = [stage EXCEPT ![p] =
                          [IdleStage("pre_llm") EXCEPT
                              !.op = "pre_process_message", !.thread = thread,
                              !.base = transcript, !.heard = pushed, !.store = workspaces,
                              !.workspace = workspace,
                              !.last_belief = last_belief(workspace)]]
    /\ UNCHANGED <<transcript, channel, chat, saves, dispatched, sanVars, pruneVars, valVars,
                   clearVars, jobVars, workspaces, writes, clock, pcw, changes, wsid, listed, ret, sent,
                   pre, seen>>

\* lines 1556 and 1557: one change set per belief_history update; an update
\* without 'key' or 'val' raises KeyError
RECURSIVE HistoryChanges(_)
HistoryChanges(updates) ==
    IF Len(updates) = 0 THEN [todo |-> <<>>, raised |-> FALSE]
    ELSE IF ~(IsDict(Head(updates)) /\ Has(Head(updates), "key") /\ Has(Head(updates), "val")
              /\ IsStr(Get(Head(updates), "key")))
    THEN [todo |-> <<>>, raised |-> TRUE]
    ELSE LET rest == HistoryChanges(Tail(updates))
         IN  [todo |-> <<Change("belief_history",
                                VMap(<<Get(Head(updates), "key").s>>,
                                     <<Get(Head(updates), "val")>>))>> \o rest.todo,
              raised |-> rest.raised]

\* lines 1543 to 1557: the change sets pre_process_message hands to
\* mutate_workspace for a result, in the order of the calls
ResultChanges(sanitized_result) ==
    LET facts == IF Has(sanitized_result, "facts")
                 THEN <<Change("belief", Get(sanitized_result, "facts"))>> ELSE <<>>
        desire == IF Has(sanitized_result, "desire")
                  THEN <<Change("desire", Get(sanitized_result, "desire"))>> ELSE <<>>
        matched == IF Has(sanitized_result, "action_match")
                      /\ IsDict(Get(sanitized_result, "action_match"))
                      /\ Has(Get(sanitized_result, "action_match"), "action")
                   THEN <<Change("action", Get2(sanitized_result, "action_match", "action"))>>
                   ELSE <<>>
        updates == IF Has(sanitized_result, "belief_history_updates")
                      /\ IsList(Get(sanitized_result, "belief_history_updates"))
                   THEN HistoryChanges(Get(sanitized_result, "belief_history_updates").items)
                   ELSE [todo |-> <<>>, raised |-> FALSE]
    IN  [todo |-> facts \o desire \o matched \o updates.todo, raised |-> updates.raised]

\* lines 1534 to 1540: the model answers. answer is False when the call of the
\* model failed, the empty text, or what clean_json_response makes of the
\* content
PreLlmAnswers(p, answer) ==
    /\ stage[p].op = "pre_process_message"
    /\ stage[p].pc = "pre_llm"
    /\ stage' = [stage EXCEPT ![p] =
           IF answer = VBool(FALSE)
           THEN [stage[p] EXCEPT !.pc = "done", !.response = answer,
                    !.result = Result(FALSE, "pre_process_message", VStr("message"),
                                      VStr("'bool' object has no attribute 'content'"))]
           ELSE IF ~IsDict(answer)
           THEN [stage[p] EXCEPT !.pc = "done", !.response = answer,
                    !.result = Result(FALSE, "pre_process_message", VStr("message"),
                                      VStr("LLM response is empty"))]
           ELSE [stage[p] EXCEPT !.pc = "mutate", !.response = sanitize(answer),
                    !.todo = ResultChanges(sanitize(answer)).todo]]
    /\ UNCHANGED <<dispatched, notStage, chatVars>>

\* lines 1543 to 1557: the next call of mutate_workspace begins; its result
\* is not looked at
PreMutate(p) ==
    /\ stage[p].op = "pre_process_message"
    /\ stage[p].pc = "mutate"
    /\ stage[p].todo # <<>>
    /\ CallBody(p, stage[p].thread, Head(stage[p].todo), None)
    /\ stage' = [stage EXCEPT ![p].todo = Tail(stage[p].todo)]
    /\ UNCHANGED <<calls, dispatched, chatVars, sanVars, pruneVars, valVars, clearVars, jobVars>>

\* lines 1560 to 1575: pre_process_message returns, with success once every
\* call of mutate_workspace has returned, with a failure when an update of
\* the belief history raised
PreReturns(p) ==
    /\ stage[p].op = "pre_process_message"
    /\ stage[p].pc = "mutate"
    /\ stage[p].todo = <<>>
    /\ pcw[p] \in {"idle", "done"}
    /\ stage' = [stage EXCEPT ![p].pc = "done",
                              ![p].result =
                                  IF ResultChanges(stage[p].response).raised
                                  THEN Result(FALSE, "pre_process_message", VStr("message"),
                                              VStr("'key'"))
                                  ELSE Result(TRUE, "pre_process_message", VStr("message"),
                                              stage[p].response)]
    /\ UNCHANGED <<dispatched, notStage, chatVars>>

\* lines 1757 to 1782: the model answers; interpret returns a failure, or
\* enters save_chat with the validated message
LlmAnswers(p, response) ==
    /\ stage[p].pc = "llm"
    /\ IF ToSave(response) = Nothing
       THEN /\ stage' = [stage EXCEPT ![p].pc = "done", ![p].response = response,
                                      ![p].result = interpret_result(response)]
            /\ UNCHANGED chat
       ELSE /\ stage' = [stage EXCEPT ![p].pc = "save", ![p].response = response]
            /\ chat' = [chat EXCEPT ![p] = Started(ToSave(response), None, None, transcript)]
    /\ UNCHANGED <<transcript, pushed, printed, channel, saves, dispatched, notStage>>

\* lines 1785 to 1790: save_chat is over and interpret returns
InterpretReturns(p) ==
    /\ stage[p].pc = "save"
    /\ chat[p].pc = "done"
    /\ stage' = [stage EXCEPT ![p].pc = "done",
                              ![p].result = interpret_result(stage[p].response)]
    /\ UNCHANGED <<chatVars, dispatched, notStage>>

-----------------------------------------------------------------------------
(* AgentUtilities.clear_tool_message_content *)

\* message.get('role') == 'tool'
IsToolMessage(message) == Has(message, "role") /\ Get(message, "role") = VStr("tool")

\* tool_indices (lines 1338 to 1343): the list is scanned from its end; the
\* place of a tool message is added, and the scan stops once there are
\* recent_tool_messages places or more
RECURSIVE ScanBack(_, _, _, _)
ScanBack(messages, i, tool_indices, recent_tool_messages) ==
    IF i = 0 THEN tool_indices
    ELSE IF IsToolMessage(messages[i])
    THEN IF Cardinality(tool_indices \cup {i}) >= recent_tool_messages
         THEN tool_indices \cup {i}
         ELSE ScanBack(messages, i - 1, tool_indices \cup {i}, recent_tool_messages)
    ELSE ScanBack(messages, i - 1, tool_indices, recent_tool_messages)

ToolIndices(messages, recent_tool_messages) ==
    ScanBack(messages, Len(messages), {}, recent_tool_messages)

\* lines 1352 to 1364: the content of a message that is not cleared: a list or
\* a dict as the JSON text of its sanitized form, anything else (None and a
\* missing content too) through sanitize and str()
StringContent(message) ==
    IF Has(message, "content") /\ (IsList(Get(message, "content")) \/ IsDict(Get(message, "content")))
    THEN VStr(json_dumps(sanitize(Get(message, "content"))))
    ELSE VStr(StrOf(sanitize(IF Has(message, "content") THEN Get(message, "content")
                             ELSE VStr(""))))

\* a clear_tool_message_content that clears the last tool message too
clear_every_tool_message(messages, recent_tool_messages) ==
    [i \in 1..Len(messages) |->
        IF IsToolMessage(messages[i]) THEN Put(messages[i], "content", VStr(""))
        ELSE Put(messages[i], "content", StringContent(messages[i]))]

\* AgentUtilities.clear_tool_message_content
clear_tool_message_content(messages, recent_tool_messages) ==
    [i \in 1..Len(messages) |->
        IF IsToolMessage(messages[i]) /\ i \notin ToolIndices(messages, recent_tool_messages)
        THEN Put(messages[i], "content", VStr(""))
        ELSE Put(messages[i], "content", StringContent(messages[i]))]

\* the messages get_message_history hands over: of the user, of the assistant
\* with a tool call, and of a tool with a text, with a parsed result, with the
\* empty list of a placeholder and with a dict
ToolMessage(content) ==
    VMap(<<"role", "tool_call_id", "content">>, <<VStr("tool"), VStr("1"), content>>)
Messages ==
    { VMap(<<"role", "content">>, <<VStr("user"), VStr("hi")>>),
      VMap(<<"role", "content", "tool_calls">>,
           <<VStr("assistant"), None,
             VList(<<ToolCall(VStr("1"), VStr("function"), Function(VStr("x"), VStr("{}")))>>)>>),
      ToolMessage(VStr("{}")),
      ToolMessage(VList(<<VMap(<<"a">>, <<VInt(1)>>)>>)),
      ToolMessage(EmptyList),
      ToolMessage(VMap(<<"a">>, <<VDec(10)>>)) }
MessageLists(n) == SeqsUpTo(Messages, n)

\* the call of clear_tool_message_content; interpret (line 1598) calls it
\* with the default recent_tool_messages = 1
ClearToolMessageContent ==
    /\ clear_pc = "in"
    /\ cleared' = clear_tool_message_content(message_list, recent)
    /\ clear_pc' = "done"
    /\ UNCHANGED <<message_list, recent, notClear>>

-----------------------------------------------------------------------------
(* SchdController.create_job_run (src/renglo/schd/schd_controller.py) *)

IdleJob(pc) ==
    [pc |-> pc, n |-> 0, now |-> 0, payload |-> None, jobdoc |-> None, response_2 |-> None,
     response_3 |-> None, ran |-> FALSE, output_doc |-> None, result |-> <<>>, status |-> 0,
     returned |-> None]

Step1(success, action) == [success |-> success, action |-> action]
TimeStamp(now) == VStr("T" \o ToString(now))

\* DataController.post_a_b: the document is stored at the end of the ring and
\* the answer names its path, or the store refuses
PostRun(runs, doc) == Append(runs, doc)
RunPath(runs) == VStr("p/o/schd_runs/r" \o ToString(Len(runs) + 1))
RunAt(path) ==
    CHOOSE i \in 1..(MaxRuns + 2) : path = VStr("p/o/schd_runs/r" \o ToString(i))

\* DataController.put_a_b_c: the fields given replace those of the document
PutRun(runs, i, fields) == [runs EXCEPT ![i] = MergeDict(runs[i], fields)]

\* lines 79 to 108: the job document is fetched and the payload is checked
CreateJobRun(payload, response_1) ==
    /\ job.pc \in {"idle", "returned", "raised"}
    /\ job.n < MaxRuns
    /\ job' =
          LET begun == [IdleJob("create_run") EXCEPT !.n = job.n + 1, !.now = job.now,
                                                    !.payload = payload]
          IN  IF ~Has(payload, "schd_jobs_id")
              THEN [begun EXCEPT !.pc = "returned", !.status = 400,
                                 !.returned = <<Step1(FALSE, "create_job_run")>>]
              ELSE IF Has(response_1, "error")
              THEN [begun EXCEPT !.pc = "returned", !.status = 400,
                                 !.result = <<response_1>>,
                                 !.returned = <<Step1(FALSE, "get_job_document")>>]
              ELSE IF GetOrNone(payload, "trigger") \notin {VStr("manual"), VStr("call"), VStr("cron")}
              THEN [begun EXCEPT !.pc = "returned", !.status = 400, !.jobdoc = response_1,
                                 !.result = <<Step1(TRUE, "create_job_run"),
                                              Step1(FALSE, "create_run")>>,
                                 !.returned = <<Step1(TRUE, "create_job_run"),
                                                Step1(FALSE, "create_run")>>]
              ELSE [begun EXCEPT !.jobdoc = response_1,
                                 !.result = <<Step1(TRUE, "create_job_run")>>]
    /\ UNCHANGED <<schd_runs, notJob>>

\* lines 109 to 115: the run document made of the payload
NewRun(payload, now) ==
    LET authored == IF Has(payload, "author") THEN payload ELSE Put(payload, "author", VStr(""))
    IN  Put(Put(Put(Put(authored, "status", VStr("new")),
                    "time_queued", TimeStamp(now)),
                "time_executed", VStr(".")),
            "output", VStr("."))

\* lines 109 to 141: the run document is posted, with status 'new'; then a
\* job document without a handler ends the call
CreateRun(saved) ==
    /\ job.pc = "create_run"
    /\ schd_runs' = IF saved THEN PostRun(schd_runs, NewRun(job.payload, job.now))
                    ELSE schd_runs
    /\ job' =
          LET posted == [job EXCEPT
                            !.now = job.now + 1,
                            !.payload = NewRun(job.payload, job.now),
                            !.response_2 =
                                IF saved
                                THEN VMap(<<"success", "path">>, <<VBool(TRUE), RunPath(schd_runs)>>)
                                ELSE VMap(<<"success">>, <<VBool(FALSE)>>),
                            !.result = Append(job.result, Step1(TRUE, "create_run"))]
          IN  IF ~Has(job.jobdoc, "handler")
              THEN [posted EXCEPT !.pc = "returned", !.status = 400,
                                  !.result = Append(posted.result, Step1(FALSE, "call_handler")),
                                  !.returned = Append(posted.result, Step1(FALSE, "call_handler"))]
              ELSE [posted EXCEPT !.pc = "call_handler"]
    /\ UNCHANGED notJob

\* lines 171 to 177: output_doc, from the answer of the document store
output_doc(response_3b) ==
    IF Truthy(Get(response_3b, "success"))
    THEN IF Has(response_3b, "path") THEN Get(response_3b, "path")
         ELSE VStr("Could not store in S3..")
    ELSE VStr("Could not store in S3.")

\* lines 141 to 185: the handler runs, its answer is stored as a document,
\* and the id of the run is taken from the path; an answer of post_a_b
\* without a path raises KeyError there
CallHandler(response_3, response_3b) ==
    /\ job.pc = "call_handler"
    /\ job' =
          LET handled == [job EXCEPT
                             !.response_3 = response_3, !.ran = TRUE,
                             !.status = IF Truthy(Get(response_3, "success")) THEN 200 ELSE 400,
                             !.result = Append(job.result,
                                               Step1(Truthy(Get(response_3, "success")),
                                                     "call_handler")),
                             !.output_doc = output_doc(response_3b)]
          IN  IF Has(job.response_2, "path")
              THEN [handled EXCEPT !.pc = "record_results"]
              ELSE [handled EXCEPT !.pc = "raised"]
    /\ UNCHANGED <<schd_runs, notJob>>

\* line 193: the status that put_a_b_c answers replaces the one of the
\* handler run
put_status(handler_status, put_status_answered) == put_status_answered

\* lines 183 to 201: the results are recorded in the run document, and the
\* call returns
RecordResults(updated) ==
    /\ job.pc = "record_results"
    /\ LET recorded == VMap(<<"output", "status", "time_executed">>,
                           <<job.output_doc, VStr("executed"), TimeStamp(job.now)>>)
           run_id == RunAt(Get(job.response_2, "path"))
       IN  /\ schd_runs' = IF updated THEN PutRun(schd_runs, run_id, recorded) ELSE schd_runs
           /\ job' = [job EXCEPT
                         !.pc = "returned", !.now = job.now + 1,
                         !.status = put_status(job.status, IF updated THEN 200 ELSE 400),
                         !.result = Append(job.result, Step1(updated, "record_results")),
                         !.returned = Append(job.result, Step1(updated, "record_results"))]
    /\ UNCHANGED notJob

-----------------------------------------------------------------------------
(* Specifications *)

InitSanitize ==
    /\ obj \in SanValues(MaxLen)
    /\ sanitized = None
    /\ resanitized = None
    /\ san_pc = "in"
    /\ history = <<>> /\ pruned = <<>> /\ prune_pc = "off"
    /\ raw_response = None /\ validation = None /\ val_pc = "off"
    /\ message_list = <<>> /\ recent = 1
    /\ cleared = <<>> /\ clear_pc = "off"
    /\ schd_runs = <<>> /\ job = IdleJob("off")
    /\ workspaces = <<>> /\ writes = <<>> /\ calls = 0 /\ clock = 0
    /\ pcw = [p \in Procs |-> "off"] /\ changes = [p \in Procs |-> None]
    /\ wsid = [p \in Procs |-> None] /\ listed = [p \in Procs |-> <<>>]
    /\ ret = [p \in Procs |-> None] /\ sent = [p \in Procs |-> <<>>]
    /\ pre = [p \in Procs |-> <<>>] /\ seen = [p \in Procs |-> 0]
    /\ transcript = <<>> /\ pushed = <<>> /\ printed = <<>>
    /\ channel = NoChannel /\ saves = 0
    /\ chat = [p \in Procs |-> IdleChat("off")]
    /\ stage = [p \in Procs |-> IdleStage("off")] /\ dispatched = <<>>

SpecSanitize == InitSanitize /\ [][Sanitize \/ SanitizeAgain]_vars

InitPrune ==
    /\ history \in Histories(MaxHist)
    /\ pruned = <<>>
    /\ prune_pc = "in"
    /\ obj = None /\ sanitized = None /\ resanitized = None /\ san_pc = "off"
    /\ raw_response = None /\ validation = None /\ val_pc = "off"
    /\ message_list = <<>> /\ recent = 1
    /\ cleared = <<>> /\ clear_pc = "off"
    /\ schd_runs = <<>> /\ job = IdleJob("off")
    /\ workspaces = <<>> /\ writes = <<>> /\ calls = 0 /\ clock = 0
    /\ pcw = [p \in Procs |-> "off"] /\ changes = [p \in Procs |-> None]
    /\ wsid = [p \in Procs |-> None] /\ listed = [p \in Procs |-> <<>>]
    /\ ret = [p \in Procs |-> None] /\ sent = [p \in Procs |-> <<>>]
    /\ pre = [p \in Procs |-> <<>>] /\ seen = [p \in Procs |-> 0]
    /\ transcript = <<>> /\ pushed = <<>> /\ printed = <<>>
    /\ channel = NoChannel /\ saves = 0
    /\ chat = [p \in Procs |-> IdleChat("off")]
    /\ stage = [p \in Procs |-> IdleStage("off")] /\ dispatched = <<>>

SpecPrune == InitPrune /\ [][Prune]_vars

InitValidate ==
    /\ raw_response \in RawResponses(MaxToolCalls)
    /\ validation = None
    /\ val_pc = "in"
    /\ obj = None /\ sanitized = None /\ resanitized = None /\ san_pc = "off"
    /\ history = <<>> /\ pruned = <<>> /\ prune_pc = "off"
    /\ workspaces = <<>> /\ writes = <<>> /\ calls = 0 /\ clock = 0
    /\ pcw = [p \in Procs |-> "off"] /\ changes = [p \in Procs |-> None]
    /\ wsid = [p \in Procs |-> None] /\ listed = [p \in Procs |-> <<>>]
    /\ ret = [p \in Procs |-> None] /\ sent = [p \in Procs |-> <<>>]
    /\ pre = [p \in Procs |-> <<>>] /\ seen = [p \in Procs |-> 0]
    /\ transcript = <<>> /\ pushed = <<>> /\ printed = <<>>
    /\ channel = NoChannel /\ saves = 0
    /\ chat = [p \in Procs |-> IdleChat("off")]
    /\ stage = [p \in Procs |-> IdleStage("off")] /\ dispatched = <<>>
    /\ message_list = <<>> /\ recent = 1
    /\ cleared = <<>> /\ clear_pc = "off"
    /\ schd_runs = <<>> /\ job = IdleJob("off")

SpecValidate == InitValidate /\ [][Validate]_vars

\* one caller at a time: the calls of a thread follow one another
Init ==
    /\ workspaces \in InitialStores
    /\ writes = <<>> /\ calls = 0 /\ clock = 0
    /\ pcw = [p \in Procs |-> "idle"] /\ changes = [p \in Procs |-> None]
    /\ wsid = [p \in Procs |-> None] /\ listed = [p \in Procs |-> <<>>]
    /\ ret = [p \in Procs |-> None] /\ sent = [p \in Procs |-> <<>>]
    /\ pre = [p \in Procs |-> <<>>] /\ seen = [p \in Procs |-> 0]
    /\ transcript = <<>> /\ pushed = <<>> /\ printed = <<>>
    /\ channel = NoChannel /\ saves = 0
    /\ chat = [p \in Procs |-> IdleChat("off")]
    /\ stage = [p \in Procs |-> IdleStage("off")] /\ dispatched = <<>>
    /\ obj = None /\ sanitized = None /\ resanitized = None /\ san_pc = "off"
    /\ history = <<>> /\ pruned = <<>> /\ prune_pc = "off"
    /\ raw_response = None /\ validation = None /\ val_pc = "off"
    /\ message_list = <<>> /\ recent = 1
    /\ cleared = <<>> /\ clear_pc = "off"
    /\ schd_runs = <<>> /\ job = IdleJob("off")

Next ==
    \/ \E thread \in Threads, chg \in ChangeSets, workspace_id \in WorkspaceIds :
          Call(1, thread, chg, workspace_id)
    \/ ListWorkspaces(1)
    \/ CreateWorkspace(1)
    \/ Relist(1)
    \/ Apply(1)

Spec == Init /\ [][Next]_vars

\* two in-flight cycles of one thread call mutate_workspace
RaceChangeSets ==
    { Change("belief", VMap(<<"a">>, <<VStr("y")>>)),
      Change("belief", VMap(<<"b">>, <<VStr("z")>>)),
      Change("desire", VStr("d1")) }

InitRace ==
    /\ workspaces \in InitialStores
    /\ writes = <<>> /\ calls = 0 /\ clock = 0
    /\ pcw = [p \in Procs |-> "idle"] /\ changes = [p \in Procs |-> None]
    /\ wsid = [p \in Procs |-> None] /\ listed = [p \in Procs |-> <<>>]
    /\ ret = [p \in Procs |-> None] /\ sent = [p \in Procs |-> <<>>]
    /\ pre = [p \in Procs |-> <<>>] /\ seen = [p \in Procs |-> 0]
    /\ transcript = <<>> /\ pushed = <<>> /\ printed = <<>>
    /\ channel = NoChannel /\ saves = 0
    /\ chat = [p \in Procs |-> IdleChat("off")]
    /\ stage = [p \in Procs |-> IdleStage("off")] /\ dispatched = <<>>
    /\ obj = None /\ sanitized = None /\ resanitized = None /\ san_pc = "off"
    /\ history = <<>> /\ pruned = <<>> /\ prune_pc = "off"
    /\ raw_response = None /\ validation = None /\ val_pc = "off"
    /\ message_list = <<>> /\ recent = 1
    /\ cleared = <<>> /\ clear_pc = "off"
    /\ schd_runs = <<>> /\ job = IdleJob("off")

NextRace ==
    \/ \E p \in Procs, chg \in RaceChangeSets : Call(p, VStr("t1"), chg, None)
    \/ \E p \in Procs : ListWorkspaces(p)
    \/ \E p \in Procs : CreateWorkspace(p)
    \/ \E p \in Procs : Relist(p)
    \/ \E p \in Procs : Apply(p)

SpecRace == InitRace /\ [][NextRace]_vars

\* mutate_workspace on the fields of a workspace, one call after another. The
\* thread has a fresh workspace, or one with an action, a follow-up, slots, two
\* plans, a cache and a state machine, as the store returns it
PlannedWorkspace ==
    VMap(<<"_id", "state", "plan", "cache", "state_machine">>,
         << VStr("w1"),
            VMap(<<"beliefs", "desire", "intent", "history", "in_progress",
                   "action", "follow_up", "slots">>,
                 <<VMap(<<"a">>, <<VStr("x")>>), VStr("d0"), EmptyList, EmptyList, None,
                   VStr("a0"), VMap(<<"q">>, <<VStr("?")>>), VMap(<<"s">>, <<VStr("v")>>)>>),
            VMap(<<"p1", "p2">>,
                 <<VMap(<<"id", "steps">>, <<VStr("p1"), VList(<<VStr("0")>>)>>),
                   VMap(<<"id", "steps">>, <<VStr("p2"), EmptyList>>)>>),
            VMap(<<"k0", "results">>, <<VStr("v0"), VList(<<VStr("r0")>>)>>),
            VMap(<<"p1">>,
                 <<StateMachine("p1",
                      << VMap(<<"step_id", "status", "note", "action_log">>,
                              <<VStr("0"), VStr("running"), VStr("n"),
                                VList(<<VMap(<<"tool", "nonce">>, <<VStr("t"), VDec(70)>>)>>)>>),
                         Step(VStr("1"), "pending") >>)>>) >>)

FieldStores == { <<NewWorkspace(0)>>, <<PlannedWorkspace>> }

LogEntry(plan_step, ks, vs) ==
    VMap(<<"plan_id", "plan_step">> \o ks, <<VStr("p1"), plan_step>> \o vs)

FieldChangeSets ==
    { Change2("foo", VInt(1), "bar", VMap(<<"x">>, <<VInt(1)>>)),
      Change2("foo", VInt(1), "desire", VStr("d1")),
      Change2("plan", VMap(<<"id", "steps">>, <<VStr("p1"), VList(<<VStr("8")>>)>>),
              "baz", VStr("z")) }
    \cup { Change("desire", v) :
             v \in {VStr("d2"), VStr(""), VFloat(15), VDec(25), VInt(5), None,
                    VMap(<<"a">>, <<VInt(1)>>)} }
    \cup { Change2("action", v, "belief", VMap(<<"b">>, <<VStr("y")>>)) :
             v \in {VStr("a1"), VFloat(15), VList(<<VStr("x")>>), VBool(TRUE)} }
    \cup { Change("plan", v) :
             v \in {VMap(<<"id", "steps", "cost">>,
                         <<VStr("p3"), VList(<<VStr("a")>>), VDec(25)>>),
                    VMap(<<"id", "steps">>, <<VStr("p1"), VList(<<VStr("9")>>)>>),
                    VMap(<<"steps">>, <<EmptyList>>),
                    VStr("p1")} }
    \cup { Change("cache", v) :
             v \in {VMap(<<"k1", "k0">>, <<VDec(25), VStr("v9")>>),
                    VMap(<<"results">>, <<VStr("r1")>>),
                    VList(<<VStr("a"), VFloat(15)>>),
                    VStr("zz")} }
    \cup { Change("action_log", v) :
             v \in {LogEntry(VStr("0"), <<"tool", "status", "details", "nonce">>,
                             <<VStr("t2"), VStr("ok"), VStr("zz"), VInt(5)>>),
                    LogEntry(VStr("1"), <<"message">>, <<VStr("m")>>),
                    LogEntry(VStr("0"), <<"type", "actionable">>,
                             <<VStr("info"), VBool(FALSE)>>)} }
    \cup { Change("new_state_machine", StateMachine("p1", <<Step(VStr("0"), "pending")>>)) }

InitFields ==
    /\ workspaces \in FieldStores
    /\ writes = <<>> /\ calls = 0 /\ clock = 0
    /\ pcw = [p \in Procs |-> "idle"] /\ changes = [p \in Procs |-> None]
    /\ wsid = [p \in Procs |-> None] /\ listed = [p \in Procs |-> <<>>]
    /\ ret = [p \in Procs |-> None] /\ sent = [p \in Procs |-> <<>>]
    /\ pre = [p \in Procs |-> <<>>] /\ seen = [p \in Procs |-> 0]
    /\ transcript = <<>> /\ pushed = <<>> /\ printed = <<>>
    /\ channel = NoChannel /\ saves = 0
    /\ chat = [p \in Procs |-> IdleChat("off")]
    /\ stage = [p \in Procs |-> IdleStage("off")] /\ dispatched = <<>>
    /\ obj = None /\ sanitized = None /\ resanitized = None /\ san_pc = "off"
    /\ history = <<>> /\ pruned = <<>> /\ prune_pc = "off"
    /\ raw_response = None /\ validation = None /\ val_pc = "off"
    /\ message_list = <<>> /\ recent = 1
    /\ cleared = <<>> /\ clear_pc = "off"
    /\ schd_runs = <<>> /\ job = IdleJob("off")

NextFields ==
    \/ \E chg \in FieldChangeSets : Call(1, VStr("t1"), chg, None)
    \/ ListWorkspaces(1)
    \/ Apply(1)

SpecFields == InitFields /\ [][NextFields]_vars

\* a turn of a thread: mutate_workspace calls with belief updates, one after
\* another, and then interpret
BeliefChangeSets ==
    { Change("belief", VMap(<<"a">>, <<VStr("y")>>)),
      Change("belief", VMap(<<"b", "c">>, <<VDec(25), VFloat(15)>>)),
      Change("belief", VMap(<<"c", "a">>, <<VMap(<<"n">>, <<VInt(1)>>), VStr("w")>>)),
      Change("belief", EmptyDict),
      Change("desire", VStr("d1")) }

InitTurn ==
    /\ workspaces \in InitialStores
    /\ writes = <<>> /\ calls = 0 /\ clock = 0
    /\ pcw = [p \in Procs |-> "idle"] /\ changes = [p \in Procs |-> None]
    /\ wsid = [p \in Procs |-> None] /\ listed = [p \in Procs |-> <<>>]
    /\ ret = [p \in Procs |-> None] /\ sent = [p \in Procs |-> <<>>]
    /\ pre = [p \in Procs |-> <<>>] /\ seen = [p \in Procs |-> 0]
    /\ transcript = <<>> /\ pushed = <<>> /\ printed = <<>>
    /\ channel = NoChannel /\ saves = 0
    /\ chat = [p \in Procs |-> IdleChat("idle")]
    /\ stage = [p \in Procs |-> IdleStage("idle")] /\ dispatched = <<>>
    /\ obj = None /\ sanitized = None /\ resanitized = None /\ san_pc = "off"
    /\ history = <<>> /\ pruned = <<>> /\ prune_pc = "off"
    /\ raw_response = None /\ validation = None /\ val_pc = "off"
    /\ message_list = <<>> /\ recent = 1
    /\ cleared = <<>> /\ clear_pc = "off"
    /\ schd_runs = <<>> /\ job = IdleJob("off")

NextTurn ==
    \/ /\ stage[1].pc = "idle"
       /\ \E chg \in BeliefChangeSets : Call(1, VStr("t1"), chg, None)
    \/ ListWorkspaces(1)
    \/ CreateWorkspace(1)
    \/ Relist(1)
    \/ Apply(1)
    \/ /\ pcw[1] \in {"idle", "done"}
       /\ \E thread \in Threads : Interpret(1, thread)
    \/ LlmAnswers(1, VBool(FALSE))

SpecTurn == InitTurn /\ [][NextTurn]_vars

\* clear_tool_message_content on a message list
InitClear ==
    /\ message_list \in MessageLists(MaxMsgs)
    /\ recent = 1
    /\ cleared = <<>>
    /\ clear_pc = "in"
    /\ schd_runs = <<>> /\ job = IdleJob("off")
    /\ obj = None /\ sanitized = None /\ resanitized = None /\ san_pc = "off"
    /\ history = <<>> /\ pruned = <<>> /\ prune_pc = "off"
    /\ raw_response = None /\ validation = None /\ val_pc = "off"
    /\ workspaces = <<>> /\ writes = <<>> /\ calls = 0 /\ clock = 0
    /\ pcw = [p \in Procs |-> "off"] /\ changes = [p \in Procs |-> None]
    /\ wsid = [p \in Procs |-> None] /\ listed = [p \in Procs |-> <<>>]
    /\ ret = [p \in Procs |-> None] /\ sent = [p \in Procs |-> <<>>]
    /\ pre = [p \in Procs |-> <<>>] /\ seen = [p \in Procs |-> 0]
    /\ transcript = <<>> /\ pushed = <<>> /\ printed = <<>>
    /\ channel = NoChannel /\ saves = 0
    /\ chat = [p \in Procs |-> IdleChat("off")]
    /\ stage = [p \in Procs |-> IdleStage("off")] /\ dispatched = <<>>

SpecClear == InitClear /\ [][ClearToolMessageContent]_vars

\* clear_tool_message_content with every number of tool messages to keep
\* from 0 to MaxKeep
MaxKeep == 2

InitKeep ==
    /\ message_list \in MessageLists(MaxMsgs)
    /\ recent \in 0..MaxKeep
    /\ cleared = <<>>
    /\ clear_pc = "in"
    /\ schd_runs = <<>> /\ job = IdleJob("off")
    /\ obj = None /\ sanitized = None /\ resanitized = None /\ san_pc = "off"
    /\ history = <<>> /\ pruned = <<>> /\ prune_pc = "off"
    /\ raw_response = None /\ validation = None /\ val_pc = "off"
    /\ workspaces = <<>> /\ writes = <<>> /\ calls = 0 /\ clock = 0
    /\ pcw = [p \in Procs |-> "off"] /\ changes = [p \in Procs |-> None]
    /\ wsid = [p \in Procs |-> None] /\ listed = [p \in Procs |-> <<>>]
    /\ ret = [p \in Procs |-> None] /\ sent = [p \in Procs |-> <<>>]
    /\ pre = [p \in Procs |-> <<>>] /\ seen = [p \in Procs |-> 0]
    /\ transcript = <<>> /\ pushed = <<>> /\ printed = <<>>
    /\ channel = NoChannel /\ saves = 0
    /\ chat = [p \in Procs |-> IdleChat("off")]
    /\ stage = [p \in Procs |-> IdleStage("off")] /\ dispatched = <<>>

SpecKeep == InitKeep /\ [][ClearToolMessageContent]_vars

\* mutate_workspace with and without a workspace id, one call after another,
\* on a thread with no workspace, with one and with two
SelectStores == { <<>>, <<NewWorkspace(0)>>, <<PlannedWorkspace, NewWorkspace(1)>> }
SelectIds == {None, VStr("w1"), VStr("w2"), VStr("w9")}

InitSelect ==
    /\ workspaces \in SelectStores
    /\ writes = <<>> /\ calls = 0 /\ clock = 0
    /\ pcw = [p \in Procs |-> "idle"] /\ changes = [p \in Procs |-> None]
    /\ wsid = [p \in Procs |-> None] /\ listed = [p \in Procs |-> <<>>]
    /\ ret = [p \in Procs |-> None] /\ sent = [p \in Procs |-> <<>>]
    /\ pre = [p \in Procs |-> <<>>] /\ seen = [p \in Procs |-> 0]
    /\ transcript = <<>> /\ pushed = <<>> /\ printed = <<>>
    /\ channel = NoChannel /\ saves = 0
    /\ chat = [p \in Procs |-> IdleChat("off")]
    /\ stage = [p \in Procs |-> IdleStage("off")] /\ dispatched = <<>>
    /\ obj = None /\ sanitized = None /\ resanitized = None /\ san_pc = "off"
    /\ history = <<>> /\ pruned = <<>> /\ prune_pc = "off"
    /\ raw_response = None /\ validation = None /\ val_pc = "off"
    /\ message_list = <<>> /\ recent = 1
    /\ cleared = <<>> /\ clear_pc = "off"
    /\ schd_runs = <<>> /\ job = IdleJob("off")

NextSelect ==
    \/ \E chg \in RaceChangeSets, workspace_id \in SelectIds :
          Call(1, VStr("t1"), chg, workspace_id)
    \/ ListWorkspaces(1)
    \/ CreateWorkspace(1)
    \/ Relist(1)
    \/ Apply(1)

SpecSelect == InitSelect /\ [][NextSelect]_vars

\* pre_process_message, one cycle after another: what the model makes of the
\* user's message
PreResult(ks, vs) == VMap(ks, vs)
PreAnswers ==
    { VBool(FALSE), VStr(""),
      PreResult(<<>>, <<>>),
      PreResult(<<"facts">>, <<VMap(<<"b">>, <<VStr("z")>>)>>),
      PreResult(<<"facts", "desire">>, <<VMap(<<"a", "n">>, <<VStr("y"), VFloat(15)>>), VStr("d1")>>),
      PreResult(<<"desire", "action_match", "belief_history_updates">>,
                <<VStr("d1"), VMap(<<"action", "confidence">>, <<VStr("a1"), VInt(90)>>),
                  VList(<<VMap(<<"type", "key", "val">>, <<VStr("belief"), VStr("b"), VStr("z")>>),
                          VMap(<<"type">>, <<VStr("belief")>>)>>)>>) }

InitPre ==
    /\ workspaces \in InitialStores
    /\ writes = <<>> /\ calls = 0 /\ clock = 0
    /\ pcw = [p \in Procs |-> "idle"] /\ changes = [p \in Procs |-> None]
    /\ wsid = [p \in Procs |-> None] /\ listed = [p \in Procs |-> <<>>]
    /\ ret = [p \in Procs |-> None] /\ sent = [p \in Procs |-> <<>>]
    /\ pre = [p \in Procs |-> <<>>] /\ seen = [p \in Procs |-> 0]
    /\ transcript = <<>> /\ pushed = <<>> /\ printed = <<>>
    /\ channel = NoChannel /\ saves = 0
    /\ chat = [p \in Procs |-> IdleChat("off")]
    /\ stage = [p \in Procs |-> IdleStage("idle")] /\ dispatched = <<>>
    /\ obj = None /\ sanitized = None /\ resanitized = None /\ san_pc = "off"
    /\ history = <<>> /\ pruned = <<>> /\ prune_pc = "off"
    /\ raw_response = None /\ validation = None /\ val_pc = "off"
    /\ message_list = <<>> /\ recent = 1
    /\ cleared = <<>> /\ clear_pc = "off"
    /\ schd_runs = <<>> /\ job = IdleJob("off")

NextPre ==
    \/ PreProcessMessage(1, VStr("t1"))
    \/ \E answer \in PreAnswers : PreLlmAnswers(1, answer)
    \/ PreMutate(1)
    \/ ListWorkspaces(1)
    \/ CreateWorkspace(1)
    \/ Relist(1)
    \/ Apply(1)
    \/ PreReturns(1)

SpecPre == InitPre /\ [][NextPre]_vars

\* create_job_run, one call after another
Payloads ==
    { VMap(<<"trigger">>, <<VStr("cron")>>),
      VMap(<<"schd_jobs_id", "trigger">>, <<VStr("j1"), VStr("cron")>>),
      VMap(<<"schd_jobs_id", "trigger", "author">>, <<VStr("j1"), VStr("manual"), VStr("u1")>>),
      VMap(<<"schd_jobs_id", "trigger">>, <<VStr("j1"), VStr("later")>>),
      VMap(<<"schd_jobs_id">>, <<VStr("j1")>>) }
JobResponses ==
    { VMap(<<"error">>, <<VStr("not found")>>),
      VMap(<<"_id", "handler">>, <<VStr("j1"), VStr("ext/run")>>),
      VMap(<<"_id", "name">>, <<VStr("j1"), VStr("nightly")>>) }
HandlerAnswers ==
    { VMap(<<"success", "output">>, <<VBool(TRUE), VStr("ok")>>),
      VMap(<<"success", "output">>, <<VBool(FALSE), VStr("Error @load_and_run")>>) }
DocumentAnswers ==
    { VMap(<<"success", "path">>, <<VBool(TRUE), VStr("p/o/schd_runs/d1")>>),
      VMap(<<"success">>, <<VBool(TRUE)>>),
      VMap(<<"success">>, <<VBool(FALSE)>>) }

InitJob ==
    /\ schd_runs = <<>> /\ job = IdleJob("idle")
    /\ workspaces = <<>> /\ writes = <<>> /\ calls = 0 /\ clock = 0
    /\ pcw = [p \in Procs |-> "off"] /\ changes = [p \in Procs |-> None]
    /\ wsid = [p \in Procs |-> None] /\ listed = [p \in Procs |-> <<>>]
    /\ ret = [p \in Procs |-> None] /\ sent = [p \in Procs |-> <<>>]
    /\ pre = [p \in Procs |-> <<>>] /\ seen = [p \in Procs |-> 0]
    /\ transcript = <<>> /\ pushed = <<>> /\ printed = <<>>
    /\ channel = NoChannel /\ saves = 0
    /\ chat = [p \in Procs |-> IdleChat("off")]
    /\ stage = [p \in Procs |-> IdleStage("off")] /\ dispatched = <<>>
    /\ obj = None /\ sanitized = None /\ resanitized = None /\ san_pc = "off"
    /\ history = <<>> /\ pruned = <<>> /\ prune_pc = "off"
    /\ raw_response = None /\ validation = None /\ val_pc = "off"
    /\ message_list = <<>> /\ recent = 1
    /\ cleared = <<>> /\ clear_pc = "off"

NextJob ==
    \/ \E payload \in Payloads, response_1 \in JobResponses : CreateJobRun(payload, response_1)
    \/ \E saved \in BOOLEAN : CreateRun(saved)
    \/ \E response_3 \in HandlerAnswers, response_3b \in DocumentAnswers :
          CallHandler(response_3, response_3b)
    \/ \E updated \in BOOLEAN : RecordResults(updated)

SpecJob == InitJob /\ [][NextJob]_vars

\* interpret with a tool catalog and a list of actions, on a thread without a
\* workspace and on one whose workspace has action 'a0'
ActionDoc(key, ks, vs) ==
    VMap(<<"key", "prompt_3_reasoning_and_planning">> \o ks, <<VStr(key), VStr("Do it.")>> \o vs)
ActionDocs ==
    { ActionDoc("a0", <<>>, <<>>) }
    \cup { ActionDoc(k, <<"tools_reference">>, <<r>>) :
             k \in {"a0", ""},
             r \in {VStr("x"), VStr("x, y"), VStr(" y ,w"), VStr("_"), VStr("")} }
    \cup { ActionDoc("a0", <<"tools_reference">>, <<VList(<<VStr("x")>>)>>),
           ActionDoc("a1", <<"tools_reference">>, <<VStr("x, y")>>) }
ActionLists(n) == SeqsUpTo(ActionDocs, n)

ToolDoc(key, goal, input) == VMap(<<"key", "goal", "input">>, <<VStr(key), VStr(goal), VStr(input)>>)
Catalogs ==
    { <<>>,
      << ToolDoc("x", "find", "[{\"name\": \"o\", \"hint\": \"h\", \"required\": true}]"),
         ToolDoc("y", "book", "{\"a\": 1}"),
         ToolDoc("z", "pay", "{a: 1") >>,
      << ToolDoc("z", "pay", "[]"),
         VMap(<<"goal">>, <<VStr("lost")>>),
         ToolDoc("x", "find", "{}"),
         ToolDoc("x", "find again", "[]") >> }

\* most actions in the list handed to interpret
MaxActions == 1

InitTools ==
    /\ workspaces \in { <<>>, <<PlannedWorkspace>> }
    /\ writes = <<>> /\ calls = 0 /\ clock = 0
    /\ pcw = [p \in Procs |-> "off"] /\ changes = [p \in Procs |-> None]
    /\ wsid = [p \in Procs |-> None] /\ listed = [p \in Procs |-> <<>>]
    /\ ret = [p \in Procs |-> None] /\ sent = [p \in Procs |-> <<>>]
    /\ pre = [p \in Procs |-> <<>>] /\ seen = [p \in Procs |-> 0]
    /\ transcript = <<>> /\ pushed = <<>> /\ printed = <<>>
    /\ channel = NoChannel /\ saves = 0
    /\ chat = [p \in Procs |-> IdleChat("idle")]
    /\ stage = [p \in Procs |-> IdleStage("idle")] /\ dispatched = <<>>
    /\ obj = None /\ sanitized = None /\ resanitized = None /\ san_pc = "off"
    /\ history = <<>> /\ pruned = <<>> /\ prune_pc = "off"
    /\ raw_response = None /\ validation = None /\ val_pc = "off"
    /\ message_list = <<>> /\ recent = 1
    /\ cleared = <<>> /\ clear_pc = "off"
    /\ schd_runs = <<>> /\ job = IdleJob("off")

NextTools ==
    \/ \E no_tools \in BOOLEAN, list_actions \in ActionLists(MaxActions),
          list_tools \in Catalogs :
          InterpretWith(1, VStr("t1"), no_tools, list_actions, list_tools)
    \/ LlmAnswers(1, VBool(FALSE))

SpecTools == InitTools /\ [][NextTools]_vars

\* save_chat, one call after another
InitChat ==
    /\ transcript \in Transcripts /\ pushed = <<>> /\ printed = <<>>
    /\ channel \in Channels /\ saves = 0
    /\ chat = [p \in Procs |-> IdleChat("idle")]
    /\ stage = [p \in Procs |-> IdleStage("off")] /\ dispatched = <<>>
    /\ workspaces = <<>> /\ writes = <<>> /\ calls = 0 /\ clock = 0
    /\ pcw = [p \in Procs |-> "off"] /\ changes = [p \in Procs |-> None]
    /\ wsid = [p \in Procs |-> None] /\ listed = [p \in Procs |-> <<>>]
    /\ ret = [p \in Procs |-> None] /\ sent = [p \in Procs |-> <<>>]
    /\ pre = [p \in Procs |-> <<>>] /\ seen = [p \in Procs |-> 0]
    /\ obj = None /\ sanitized = None /\ resanitized = None /\ san_pc = "off"
    /\ history = <<>> /\ pruned = <<>> /\ prune_pc = "off"
    /\ raw_response = None /\ validation = None /\ val_pc = "off"
    /\ message_list = <<>> /\ recent = 1
    /\ cleared = <<>> /\ clear_pc = "off"
    /\ schd_runs = <<>> /\ job = IdleJob("off")

NextChat ==
    \/ \E c \in SaveChatCalls : SaveChat(1, c[1], c[2], c[3])
    \/ StoreMessage(1)
    \/ StorePlaceholder(1)
    \/ PrintChat(1)

SpecChat == InitChat /\ [][NextChat]_vars

\* the transcripts a stage may find: those of save_chat, and one that ends with
\* a message of two tool calls and their placeholders
TwoCalls ==
    VMap(<<"role", "content", "tool_calls">>,
         <<VStr("assistant"), None,
           VList(<<ToolCall(VStr("1"), VStr("function"), Function(VStr("x"), VStr("{}"))),
                   ToolCall(VStr("2"), VStr("function"), Function(VStr("x"), VStr("{}")))>>)>>)
CycleTranscripts ==
    Transcripts
    \cup { << MessageDoc(TwoCalls, "tool_rq", None),
              PlaceholderDoc(Get(TwoCalls, "tool_calls").items[1], None),
              PlaceholderDoc(Get(TwoCalls, "tool_calls").items[2], None) >> }

\* one stage of a cycle: interpret, or act
InitCycle ==
    /\ transcript \in CycleTranscripts /\ pushed = <<>> /\ printed = <<>>
    /\ channel \in Channels /\ saves = 0
    /\ chat = [p \in Procs |-> IdleChat("idle")]
    /\ stage = [p \in Procs |-> IdleStage("idle")] /\ dispatched = <<>>
    /\ workspaces \in InitialStores
    /\ writes = <<>> /\ calls = 0 /\ clock = 0
    /\ pcw = [p \in Procs |-> "off"] /\ changes = [p \in Procs |-> None]
    /\ wsid = [p \in Procs |-> None] /\ listed = [p \in Procs |-> <<>>]
    /\ ret = [p \in Procs |-> None] /\ sent = [p \in Procs |-> <<>>]
    /\ pre = [p \in Procs |-> <<>>] /\ seen = [p \in Procs |-> 0]
    /\ obj = None /\ sanitized = None /\ resanitized = None /\ san_pc = "off"
    /\ history = <<>> /\ pruned = <<>> /\ prune_pc = "off"
    /\ raw_response = None /\ validation = None /\ val_pc = "off"
    /\ message_list = <<>> /\ recent = 1
    /\ cleared = <<>> /\ clear_pc = "off"
    /\ schd_runs = <<>> /\ job = IdleJob("off")

NextCycle ==
    \/ \E thread \in Threads : Interpret(1, thread)
    \/ \E response \in LlmResponses(MaxToolCalls) : LlmAnswers(1, response)
    \/ StoreMessage(1)
    \/ StorePlaceholder(1)
    \/ PrintChat(1)
    \/ InterpretReturns(1)
    \/ \E plan \in Plans(MaxToolCalls), list_tools \in ListTools, handler \in HandlerResponses :
          Act(1, plan, list_tools, handler)

SpecCycle == InitCycle /\ [][NextCycle]_vars

\* two stages at work on one thread save a message each: a message with two
\* tool calls, a text, or the response of a tool
RaceMessages ==
    { TwoCalls,
      VMap(<<"role", "content">>, <<VStr("assistant"), VStr("hi")>>),
      VMap(<<"role", "tool_call_id", "content">>, <<VStr("tool"), VStr("1"), VStr("{}")>>) }

InitChatRace ==
    /\ transcript \in Transcripts /\ pushed = <<>> /\ printed = <<>>
    /\ channel = LiveChannel /\ saves = 0
    /\ chat = [p \in Procs |-> IdleChat("idle")]
    /\ stage = [p \in Procs |-> IdleStage("off")] /\ dispatched = <<>>
    /\ workspaces = <<>> /\ writes = <<>> /\ calls = 0 /\ clock = 0
    /\ pcw = [p \in Procs |-> "off"] /\ changes = [p \in Procs |-> None]
    /\ wsid = [p \in Procs |-> None] /\ listed = [p \in Procs |-> <<>>]
    /\ ret = [p \in Procs |-> None] /\ sent = [p \in Procs |-> <<>>]
    /\ pre = [p \in Procs |-> <<>>] /\ seen = [p \in Procs |-> 0]
    /\ obj = None /\ sanitized = None /\ resanitized = None /\ san_pc = "off"
    /\ history = <<>> /\ pruned = <<>> /\ prune_pc = "off"
    /\ raw_response = None /\ validation = None /\ val_pc = "off"
    /\ message_list = <<>> /\ recent = 1
    /\ cleared = <<>> /\ clear_pc = "off"
    /\ schd_runs = <<>> /\ job = IdleJob("off")

NextChatRace ==
    \/ \E p \in Procs, m \in RaceMessages : SaveChatOnce(p, m)
    \/ \E p \in Procs : StoreMessage(p)
    \/ \E p \in Procs : StorePlaceholder(p)
    \/ \E p \in Procs : PrintChat(p)

SpecChatRace == InitChatRace /\ [][NextChatRace]_vars

-----------------------------------------------------------------------------
(* Claims *)

LastOf(q) == q[Len(q)]

\* an assistant message that carries at least one tool call
IsToolCallMessage(m) ==
    /\ IsDict(m)
    /\ Has(m, "role") /\ Get(m, "role") = VStr("assistant")
    /\ Has(m, "tool_calls") /\ IsList(Get(m, "tool_calls"))
    /\ Len(Get(m, "tool_calls").items) >= 1

\* C1: for every assistant message whose tool_calls list has length N >= 1, a
\* save_chat of the message (saved as a chat message, i.e. with no msg_type, and
\* with the store taking every append) appends to the transcript one tool_rq
\* message followed by exactly N tool_rs placeholders, in tool-call order, each
\* with role 'tool', empty content and the tool_call_id of its tool call.
C1_ToolRqThenPlaceholders ==
    \A p \in Procs :
        (/\ chat[p].pc = "done"
         /\ chat[p].msg_type = None
         /\ ~chat[p].lost
         /\ IsToolCallMessage(chat[p].output))
        => LET n == Len(chat[p].base)
               tcs == Get(chat[p].output, "tool_calls").items
           IN  /\ Len(transcript) = n + 1 + Len(tcs)
               /\ SubSeq(transcript, 1, n) = chat[p].base
               /\ Get(transcript[n + 1], "_type") = VStr("tool_rq")
               /\ Get(Get(transcript[n + 1], "_out"), "tool_calls") = VList(tcs)
               /\ \A i \in 1..Len(tcs) :
                      /\ Get(transcript[n + 1 + i], "_type") = VStr("tool_rs")
                      /\ Get(Get(transcript[n + 1 + i], "_out"), "role") = VStr("tool")
                      /\ Get(Get(transcript[n + 1 + i], "_out"), "content")
                             \in {EmptyList, VStr("")}
                      /\ Get(Get(transcript[n + 1 + i], "_out"), "tool_call_id")
                             = Get(tcs[i], "id")

\* C1 witness: a message with the tool calls "2" and "1" has been saved after an
\* earlier tool call, and the transcript ends with its tool_rq and the
\* placeholders of "2" and "1", in this order
C1_Witness ==
    /\ chat[1].pc = "done" /\ ~chat[1].lost /\ chat[1].msg_type = None
    /\ IsToolCallMessage(chat[1].output)
    /\ Len(chat[1].base) = 2
    /\ Len(transcript) = 5
    /\ Get(transcript[3], "_type") = VStr("tool_rq")
    /\ Get(Get(transcript[4], "_out"), "tool_call_id") = VStr("2")
    /\ Get(Get(transcript[5], "_out"), "tool_call_id") = VStr("1")

\* state.beliefs[k] and state.desire of a workspace document; a document
\* without state has no belief and the empty desire
BeliefOf(doc, k) ==
    IF Has(doc, "state") /\ Has(Get(doc, "state"), "beliefs")
       /\ Has(Get2(doc, "state", "beliefs"), k)
    THEN Get(Get2(doc, "state", "beliefs"), k)
    ELSE None
DesireOf(doc) ==
    IF Has(doc, "state") /\ Has(Get(doc, "state"), "desire")
    THEN Get2(doc, "state", "desire")
    ELSE VStr("")

\* the document of the store that has the _id of doc
Stored(doc) ==
    workspaces[CHOOSE i \in 1..Len(workspaces) : Get(workspaces[i], "_id") = Get(doc, "_id")]

\* the last calls of the two callers read the same workspace before either of
\* them wrote it back, and both have written
BothRaced ==
    /\ pcw[1] = "done" /\ pcw[2] = "done"
    /\ Len(listed[1]) > 0 /\ Len(listed[2]) > 0
    /\ LastOf(listed[1]) = LastOf(listed[2])
    /\ seen[1] = seen[2]
    /\ Len(writes) = seen[1] + 2

\* C2: two mutate_workspace calls on the same workspace that both read it before
\* either writes it back both return true, and the workspace persisted afterwards
\* is the one the last writer handed over: the snapshot both read with the last
\* writer's changes only, the other call's changes being lost.
C2_LastWriterWins ==
    BothRaced =>
        LET last == writes[Len(writes)]
            first == writes[Len(writes) - 1]
            snap == LastOf(listed[last])
            chg == changes[last]
        IN  /\ first # last
            /\ ret[1] = VBool(TRUE) /\ ret[2] = VBool(TRUE)
            /\ Stored(snap) = sent[last][1]
            /\ \A k \in {"a", "b"} :
                   BeliefOf(Stored(snap), k) =
                       IF Has(chg, "belief") /\ Has(Get(chg, "belief"), k)
                       THEN Get(Get(chg, "belief"), k)
                       ELSE BeliefOf(snap, k)
            /\ DesireOf(Stored(snap)) =
                   IF Has(chg, "desire") THEN Get(chg, "desire") ELSE DesireOf(snap)

\* C2 witness: the first writer set belief a to "y", the last writer set the
\* desire, and the persisted workspace holds the desire and the old belief "x"
C2_Witness ==
    /\ BothRaced
    /\ changes[writes[Len(writes) - 1]] = Change("belief", VMap(<<"a">>, <<VStr("y")>>))
    /\ changes[writes[Len(writes)]] = Change("desire", VStr("d1"))
    /\ BeliefOf(LastOf(workspaces), "a") = VStr("x")
    /\ DesireOf(LastOf(workspaces)) = VStr("d1")
    /\ ret[1] = VBool(TRUE) /\ ret[2] = VBool(TRUE)

\* C3: after any sequence of mutate_workspace calls with any change sets, every
\* workspace document that mutate_workspace hands to the store holds no decimal
\* and no float at any depth.
C3_NoDecimalNoFloatPersisted ==
    \A p \in Procs : \A i \in 1..Len(sent[p]) : ~HasDecOrFloat(sent[p][i])

\* C3 witness: beliefs given as Decimal('2.5') and as the float 1.5 were handed
\* over as the strings "2.5" and "1.5", and the step id that the store returned
\* as Decimal('1') as the integer 1 and its cached Decimal('4.5') as "4.5"
C3_Witness ==
    /\ pcw[1] = "done" /\ Len(sent[1]) = 1
    /\ pre[1] = <<RunningWorkspace>>
    /\ changes[1] = Change("belief", VMap(<<"b", "c">>, <<VDec(25), VFloat(15)>>))
    /\ BeliefOf(sent[1][1], "b") = VStr("2.5")
    /\ BeliefOf(sent[1][1], "c") = VStr("1.5")
    /\ Get(StepsOf(sent[1][1], "p1").items[2], "step_id") = VInt(1)
    /\ Get(Get2(sent[1][1], "cache", "irn:tool_rs:x/y"), "output") = VStr("4.5")

\* whether the plan of doc declares a step with this step id
Declares(doc, plan_id, plan_step) ==
    /\ Has(doc, "state_machine")
    /\ Has(Get(doc, "state_machine"), plan_id)
    /\ IsDict(Get2(doc, "state_machine", plan_id))
    /\ Has(Get2(doc, "state_machine", plan_id), "steps")
    /\ \E i \in 1..Len(StepsOf(doc, plan_id).items) :
           /\ Has(StepsOf(doc, plan_id).items[i], "step_id")
           /\ StrOf(sanitize(Get(StepsOf(doc, plan_id).items[i], "step_id")))
                  = StrOf(sanitize(plan_step))

\* the store after the call of p holds every document it held before the call
\* as it was; a thread that had no workspace may have got its empty one
StoreAsBefore(p) ==
    /\ Len(workspaces) >= Len(pre[p])
    /\ SubSeq(workspaces, 1, Len(pre[p])) = pre[p]
    /\ \A i \in (Len(pre[p]) + 1)..Len(workspaces) : workspaces[i] = NewWorkspace(i - 1)

\* the call of p has ended, and its change set has a step_state for a step that
\* the plan of the workspace did not declare when the call began
UndeclaredStepState(p) ==
    /\ pcw[p] = "done"
    /\ Has(changes[p], "step_state")
    /\ ~Has(changes[p], "new_state_machine")
    /\ IsDict(Get(changes[p], "step_state"))
    /\ Has(Get(changes[p], "step_state"), "plan_id")
    /\ Has(Get(changes[p], "step_state"), "plan_step")
    /\ \/ Len(pre[p]) = 0
       \/ ~Declares(LastOf(pre[p]), Get2(changes[p], "step_state", "plan_id").s,
                    Get2(changes[p], "step_state", "plan_step"))

\* C6: a step_state mutation whose plan_step matches no step_id among the steps
\* declared for that plan makes mutate_workspace return false and leaves the
\* persisted workspace unchanged: no step is fabricated, and no state_machine
\* entry is created for an unknown plan_id.
C6_UndeclaredStepFails ==
    \A p \in Procs :
        UndeclaredStepState(p) =>
            /\ ret[p] = VBool(FALSE)
            /\ StoreAsBefore(p)
            /\ \A i \in 1..Len(workspaces) :
                   /\ ~Declares(workspaces[i], Get2(changes[p], "step_state", "plan_id").s,
                                Get2(changes[p], "step_state", "plan_step"))
                   /\ (/\ Has(workspaces[i], "state_machine")
                       /\ Has(Get(workspaces[i], "state_machine"),
                              Get2(changes[p], "step_state", "plan_id").s))
                      => /\ i <= Len(pre[p])
                         /\ Has(pre[p][i], "state_machine")
                         /\ Has(Get(pre[p][i], "state_machine"),
                                Get2(changes[p], "step_state", "plan_id").s)

\* C6 witness: a step_state for the unknown plan p2 reached the loop of a call on
\* the running workspace, the call returned false and the store is as it was
C6_Witness ==
    /\ pcw[1] = "done"
    /\ changes[1] = Change("step_state", StepUpdate("p2", VStr("0"), VStr("running")))
    /\ listed[1] = <<RunningWorkspace>>
    /\ ret[1] = VBool(FALSE)
    /\ workspaces = <<RunningWorkspace>>

\* state_machine[plan] of doc is a state machine: a mapping with a list of steps
IsMachine(doc, plan) ==
    /\ Has(doc, "state_machine")
    /\ Has(Get(doc, "state_machine"), plan)
    /\ IsDict(Get2(doc, "state_machine", plan))
    /\ Has(Get2(doc, "state_machine", plan), "steps")
    /\ IsList(StepsOf(doc, plan))

\* the step ids of the plan, in order
StepIds(doc, plan) ==
    [i \in 1..Len(StepsOf(doc, plan).items) |->
        StrOf(sanitize(GetOrNone(StepsOf(doc, plan).items[i], "step_id")))]

\* C7: a new_state_machine mutation for a plan_id that already has an entry in
\* state_machine leaves that entry unchanged, and after any mutation the state
\* machine of a plan is the one first inserted plus step updates: it still is a
\* state machine and it has the steps it had (numbers compared as sanitize
\* leaves them).
C7_StateMachineKept ==
    [][\A i \in 1..Len(workspaces) : \A plan \in {"p1", "p2"} :
          IsMachine(workspaces[i], plan) =>
              /\ IsMachine(workspaces'[i], plan)
              /\ StepIds(workspaces'[i], plan) = StepIds(workspaces[i], plan)
              /\ (changes[1] # None /\ changes[1].ks = <<"new_state_machine">>)
                 => sanitize(Get2(workspaces'[i], "state_machine", plan))
                        = sanitize(Get2(workspaces[i], "state_machine", plan))]_vars

\* C8: mutate_workspace returns false whenever it fails (no thread id, an
\* exception, a persistence failure reported by update_workspace); it returns
\* true only if the whole workspace was persisted.
C8_TrueOnlyIfPersisted ==
    \A p \in Procs :
        (pcw[p] = "done" /\ ret[p] = VBool(TRUE)) =>
            /\ Len(sent[p]) = 1
            /\ \E i \in 1..Len(workspaces) : workspaces[i] = sent[p][1]

C4_SanitizeIdempotent ==
    san_pc = "twice" =>
        /\ resanitized = sanitized
        /\ Shape(sanitized) = Shape(obj)

\* C5: prune_history returns exactly one entry per distinct key of its input, the
\* occurrence of that key nearest the end of the input, and the entries it
\* returns are in the same relative order as in the input.
C5_PruneKeepsLatestPerKey ==
    prune_pc = "done" =>
        \E f \in [1..Len(pruned) -> 1..Len(history)] :
            /\ \A i \in 1..Len(pruned) : pruned[i] = history[f[i]]
            /\ \A i, j \in 1..Len(pruned) : i < j => f[i] < f[j]
            /\ \A i \in 1..Len(pruned) :
                   \A j \in 1..Len(history) : history[j].key = pruned[i].key => j <= f[i]
            /\ {pruned[i].key : i \in 1..Len(pruned)} = {history[j].key : j \in 1..Len(history)}
            /\ \A i, j \in 1..Len(pruned) : i # j => pruned[i].key # pruned[j].key

\* C5 witness: a history in which a key occurs twice with another key in between
\* has been pruned
C5_Witness ==
    /\ prune_pc = "done"
    /\ Len(history) = 3
    /\ history[1].key = "a" /\ history[2].key = "b" /\ history[3].key = "a"
    /\ pruned = <<history[2], history[3]>>

\* a message as the chat-completion contract wants it
Conforms(m) ==
    LET given(d, k) == Has(d, k) /\ Get(d, k) # None
    IN  /\ Has(m, "role") /\ Get(m, "role") = VStr("assistant")
        /\ given(m, "content") \/ given(m, "tool_calls")
        /\ ~given(m, "tool_calls") => IsStr(Get(m, "content"))
        /\ given(m, "tool_calls") =>
               /\ IsList(Get(m, "tool_calls"))
               /\ \A i \in 1..Len(Get(m, "tool_calls").items) :
                      LET tc == Get(m, "tool_calls").items[i]
                      IN  /\ IsDict(tc)
                          /\ given(tc, "id")
                          /\ Has(tc, "type") /\ Get(tc, "type") = VStr("function")
                          /\ given(tc, "function")
                          /\ IsDict(Get(tc, "function"))
                          /\ given(Get(tc, "function"), "name")
                          /\ given(Get(tc, "function"), "arguments")

\* C10: every message the validator accepts has role 'assistant', non-null
\* content or non-null tool_calls, string content when it carries no tool_calls
\* and, when it carries tool_calls, a list of mappings each with a non-null id,
\* type 'function' and a function mapping with non-null name and arguments; a
\* message violating one of these is rejected, with a failure result that
\* names the violated rule.
C10_ValidatorAcceptsOnlyConforming ==
    val_pc = "done" =>
        /\ validation.success => Conforms(raw_response)
        /\ ~Conforms(raw_response) =>
               /\ validation.success = FALSE
               /\ IsStr(validation.output) /\ validation.output.s # ""

\* C10 witness: the message with one well-formed tool call has been accepted
C10_Witness ==
    /\ val_pc = "done"
    /\ validation.success
    /\ raw_response =
           VMap(<<"role", "tool_calls">>,
                <<VStr("assistant"),
                  VList(<<ToolCall(VStr("1"), VStr("function"),
                                   Function(VStr("x"), VStr("{}")))>>)>>)

\* C11: when a model message has both non-null content and non-null tool_calls,
\* the validated message that validate_interpret_openai_llm_response returns has
\* content equal to the empty string and its tool_calls unchanged.
C11_ToolCallsTakePrecedence ==
    (/\ val_pc = "done"
     /\ validation.success
     /\ Has(raw_response, "content") /\ Get(raw_response, "content") # None
     /\ Has(raw_response, "tool_calls") /\ Get(raw_response, "tool_calls") # None)
    => /\ Get(validation.output, "content") = VStr("")
       /\ Get(validation.output, "tool_calls") = Get(raw_response, "tool_calls")
       /\ Get(validation.output, "role") = Get(raw_response, "role")

\* C11 witness: a message with the content "hi" and two tool calls has been
\* accepted with empty content
C11_Witness ==
    /\ val_pc = "done"
    /\ validation.success
    /\ Has(raw_response, "content") /\ Get(raw_response, "content") = VStr("hi")
    /\ Has(raw_response, "tool_calls")
    /\ IsList(Get(raw_response, "tool_calls"))
    /\ Len(Get(raw_response, "tool_calls").items) = 2
    /\ Get(validation.output, "content") = VStr("")

\* a value as the store holds it once it has gone through the sanitizer
Norm(v) == sanitize(sanitize(v))

\* the call of p handed one document to the store and the store holds it
Persisted(p) ==
    /\ pcw[p] = "done"
    /\ Len(sent[p]) = 1
    /\ Len(listed[p]) > 0
    /\ \E i \in 1..Len(workspaces) : workspaces[i] = sent[p][1]

\* C12: a belief mutation shallow-merges the given mapping into state.beliefs:
\* in the workspace persisted by the call every key of the update maps to the
\* update's value and every other belief key keeps its previous value (values
\* in the form the sanitizer gives them), so that a sequence of belief
\* mutations leaves the left-to-right override of all updates.
C12_BeliefsShallowMerged ==
    \A p \in Procs :
        (/\ Persisted(p)
         /\ Has(changes[p], "belief")
         /\ IsDict(Get(changes[p], "belief")))
        => \A k \in {"a", "b", "c", "n"} :
               BeliefOf(sent[p][1], k) =
                   IF Has(Get(changes[p], "belief"), k)
                   THEN Norm(Get(Get(changes[p], "belief"), k))
                   ELSE Norm(BeliefOf(LastOf(listed[p]), k))

\* C12 witness: after the updates {a: 'y'} and then {c: {n: 1}, a: 'w'} and
\* {b: 2.5, c: 1.5} in two calls, belief a is the later value and c was
\* replaced as a whole
C12_Witness ==
    /\ Persisted(1)
    /\ calls = 2
    /\ Len(pre[1]) > 0
    /\ BeliefOf(LastOf(pre[1]), "a") = VStr("w")
    /\ BeliefOf(LastOf(pre[1]), "c") = VMap(<<"n">>, <<VInt(1)>>)
    /\ changes[1] = Change("belief", VMap(<<"b", "c">>, <<VDec(25), VFloat(15)>>))
    /\ BeliefOf(LastOf(workspaces), "a") = VStr("w")
    /\ BeliefOf(LastOf(workspaces), "b") = VStr("2.5")
    /\ BeliefOf(LastOf(workspaces), "c") = VStr("1.5")

\* state.history of a workspace document; a document without state has none
HistoryOf(doc) ==
    IF Has(doc, "state") /\ Has(Get(doc, "state"), "history")
    THEN Get2(doc, "state", "history").items
    ELSE <<>>

\* the belief_history mapping of a change set, the empty mapping when it has none
LedgerUpdate(change_set) ==
    IF Has(change_set, "belief_history") /\ IsDict(Get(change_set, "belief_history"))
    THEN Get(change_set, "belief_history")
    ELSE EmptyDict

\* C13: state.history is append-only: for every successful mutate_workspace call
\* the history before the call is a prefix of the history after it, a
\* belief_history mutation appends exactly one event {type: 'belief', key, val,
\* time} per (key, val) of its mapping, in mapping order, and no other mutation
\* key changes the history.
C13_HistoryAppendOnly ==
    \A p \in Procs :
        (Persisted(p) /\ ret[p] = VBool(TRUE)) =>
            LET before == HistoryOf(LastOf(listed[p]))
                after == HistoryOf(sent[p][1])
                upd == LedgerUpdate(changes[p])
            IN  /\ Len(after) = Len(before) + Len(upd.ks)
                /\ \A i \in 1..Len(before) : after[i] = Norm(before[i])
                /\ \A j \in 1..Len(upd.ks) :
                       /\ after[Len(before) + j].ks = <<"type", "key", "val", "time">>
                       /\ Get(after[Len(before) + j], "type") = VStr("belief")
                       /\ Get(after[Len(before) + j], "key") = VStr(upd.ks[j])
                       /\ Get(after[Len(before) + j], "val") = Norm(upd.vs[j])
                       /\ IsStr(Get(after[Len(before) + j], "time"))

\* C13 witness: a second belief_history call has been persisted and the ledger
\* holds the two events of the first call followed by the two of the second
C13_Witness ==
    /\ Persisted(1) /\ ret[1] = VBool(TRUE)
    /\ Has(changes[1], "belief_history")
    /\ Len(HistoryOf(LastOf(listed[1]))) = 2
    /\ Len(HistoryOf(LastOf(workspaces))) = 4
    /\ Get(HistoryOf(LastOf(workspaces))[3], "key") = VStr("a")
    /\ Get(HistoryOf(LastOf(workspaces))[4], "val") = VStr("2.5")
    /\ Get(HistoryOf(LastOf(workspaces))[2], "time")
           # Get(HistoryOf(LastOf(workspaces))[4], "time")

\* the tool_rs messages of a transcript that answer the tool call id
ResponsesTo(msgs, id) ==
    { j \in 1..Len(msgs) :
        /\ Get(msgs[j], "_type") = VStr("tool_rs")
        /\ GetOrNone(Get(msgs[j], "_out"), "tool_call_id") = id }

\* a call of act on an assistant message with tool calls has ended
ActedOnToolCalls(p) ==
    /\ stage[p].op = "act"
    /\ stage[p].pc \in {"done", "raised"}
    /\ IsToolCallMessage(stage[p].plan)

Dispatchable(p) ==
    /\ ActedOnToolCalls(p)
    /\ Get(Get(Get(stage[p].plan, "tool_calls").items[1], "function"), "name") = VStr("x")
    /\ stage[p].list_tools = VList(<<Tool("x", "e/h")>>)

\* C15: when the handler dispatcher reports failure for the selected tool
\* call, act returns a failure result, and the transcript then holds a tool
\* response for that tool call id that is not the empty placeholder.
C15_HandlerFailurePersisted ==
    \A p \in Procs :
        (Dispatchable(p) /\ Get(stage[p].handler, "success") = VBool(FALSE))
        => /\ stage[p].pc = "done"
           /\ stage[p].result.success = FALSE
           /\ \E j \in ResponsesTo(transcript, CallIds(stage[p].plan)[1]) :
                  Truthy(Get(Get(transcript[j], "_out"), "content"))

\* the cache of the thread's latest workspace document
CacheOf(store) ==
    IF Len(store) > 0 /\ Has(LastOf(store), "cache") THEN Get(LastOf(store), "cache")
    ELSE EmptyDict

\* C16: when the handler succeeds, act returns success, the transcript holds
\* for the first tool call's id a tool-role message whose content is the
\* JSON text of the handler output, and the workspace cache holds under
\* 'irn:tool_rs:<handler route>' the pair {input: the tool call's arguments,
\* output: the handler output}, with every other cache key as it was.
C16_SuccessPersistedAndCached ==
    \A p \in Procs :
        (Dispatchable(p) /\ Get(stage[p].handler, "success") = VBool(TRUE))
        => /\ stage[p].pc = "done"
           /\ stage[p].result.success = TRUE
           /\ \E j \in ResponsesTo(transcript, CallIds(stage[p].plan)[1]) :
                  /\ Get(Get(transcript[j], "_out"), "role") = VStr("tool")
                  /\ Get(Get(transcript[j], "_out"), "content")
                         = VStr(json_dumps(Get(stage[p].handler, "output")))
           /\ Has(CacheOf(workspaces), "irn:tool_rs:e/h")
           /\ Get(CacheOf(workspaces), "irn:tool_rs:e/h")
                  = VMap(<<"input", "output">>,
                         <<json_loads(Get(Get(Get(stage[p].plan, "tool_calls").items[1],
                                              "function"), "arguments").s),
                           Get(stage[p].handler, "output")>>)
           /\ \A k \in Range(CacheOf(stage[p].store).ks) :
                  k # "irn:tool_rs:e/h"
                  => /\ Has(CacheOf(workspaces), k)
                     /\ Norm(Get(CacheOf(workspaces), k)) = Norm(Get(CacheOf(stage[p].store), k))

\* interpret has returned after the call of the model failed, or after the
\* validator turned its message down
FailedAnswer(p) ==
    /\ stage[p].op = "interpret"
    /\ stage[p].pc = "done"
    /\ stage[p].response # None
    /\ \/ ~Truthy(stage[p].response)
       \/ ~validate_interpret_openai_llm_response(stage[p].response).success

Heard(p) ==
    SelectSeq(SubSeq(pushed, Len(stage[p].heard) + 1, Len(pushed)),
              LAMBDA d : Get(d, "_type") # VStr("transient"))

\* the placeholders save_chat stores for the tool calls tcs
RECURSIVE Placeholders(_)
Placeholders(tcs) ==
    IF Len(tcs) = 0 THEN <<>>
    ELSE <<PlaceholderDoc(Head(tcs), None)>> \o Placeholders(Tail(tcs))

\* interpret has returned success and the store took every append of the call
Interpreted(p) ==
    /\ stage[p].op = "interpret"
    /\ stage[p].pc = "done"
    /\ stage[p].result.success
    /\ ~chat[p].lost

\* C18: interpret persists a validated message in exactly one of two ways: a
\* message that carries tool calls becomes a tool_rq message followed by one
\* tool_rs placeholder per call and is not sent to the live channel; any other
\* validated message becomes one assistant message of type text, which is
\* also what the live channel is sent.
C18_PersistedOneOfTwoWays ==
    \A p \in Procs :
        Interpreted(p)
        => IF IsToolCallMessage(stage[p].result.output)
           THEN /\ transcript
                       = stage[p].base
                         \o <<MessageDoc(stage[p].result.output, "tool_rq", None)>>
                         \o Placeholders(Get(stage[p].result.output, "tool_calls").items)
                /\ Heard(p) = <<>>
           ELSE /\ transcript
                       = stage[p].base
                         \o <<MessageDoc(stage[p].result.output, "text", None)>>
                /\ Heard(p) \in {<<>>, <<MessageDoc(stage[p].result.output, "text", None)>>}

\* the tool_rq message at position i is followed at once by one tool_rs
\* message per tool call, in tool-call order
FollowedByPlaceholders(msgs, i) ==
    LET tcs == Get(Get(msgs[i], "_out"), "tool_calls").items
    IN  /\ i + Len(tcs) <= Len(msgs)
        /\ \A k \in 1..Len(tcs) :
               /\ Get(msgs[i + k], "_type") = VStr("tool_rs")
               /\ GetOrNone(Get(msgs[i + k], "_out"), "tool_call_id") = Get(tcs[k], "id")

\* C19: in every transcript state of a thread that a reader can find while no
\* save_chat is between the appends of its placeholders, also when another
\* stage appends to the thread at the same time and when the store fails an
\* append, each tool_rq message with N tool calls is followed at once by its N
\* tool_rs messages, none missing and no other message in between.
C19_ToolRqAlwaysFollowed ==
    (\A p \in Procs : chat[p].pc # "placeholders")
    => \A i \in 1..Len(transcript) :
           Get(transcript[i], "_type") = VStr("tool_rq")
           => FollowedByPlaceholders(transcript, i)

\* the inputs the stages must turn down: interpret without a thread id; act
\* on a plan without tool calls, on a tool call that names no tool, on a tool
\* with no handler entry, with an empty one, or with a route that is not
\* <extension>/<handler>
BadInput(p) ==
    \/ stage[p].op = "interpret" /\ ~Truthy(stage[p].thread)
    \/ /\ stage[p].op = "act"
       /\ \/ ~IsToolCallMessage(stage[p].plan)
          \/ ~Dispatchable(p)

\* C20: act and interpret never raise to their caller: every call ends with a
\* result {success, action, input, output} that names the action, and for an
\* input they must turn down the result is a failure.
C20_StagesNeverRaise ==
    \A p \in Procs :
        (stage[p].op \in {"act", "interpret"} /\ stage[p].pc \in {"done", "raised"})
        => /\ stage[p].pc = "done"
           /\ stage[p].result.action = stage[p].op
           /\ BadInput(p) => ~stage[p].result.success

\* C21: if the transcript store fails (answers without success, or raises)
\* while interpret persists the validated message, interpret returns a
\* failure; it returns success only when every append of the message was
\* taken by the store.
C21_StoreFailureReported ==
    \A p \in Procs :
        (/\ stage[p].op = "interpret"
         /\ stage[p].pc = "done"
         /\ stage[p].response # None
         /\ chat[p].pc = "done"
         /\ chat[p].lost)
        => ~stage[p].result.success

\* whether the caller's context has a connection id and a configured client
Connected == Truthy(channel.connection_id) /\ channel.configured

\* C22: the push channel can be skipped. With no connection id, or with a
\* WebSocket client that is not configured, every print_chat returns false,
\* nothing reaches the channel and nothing is raised; the stage goes on, and
\* the message save_chat was given is in the transcript when the call ends.
C22_PushSkippable ==
    ~Connected =>
        /\ pushed = <<>>
        /\ \A i \in 1..Len(printed) : printed[i] = FALSE
        /\ \A p \in Procs :
               /\ stage[p].op = "interpret" => (Len(printed) >= 1 /\ stage[p].error = "")
               /\ (chat[p].pc = "done" /\ Prints(chat[p]) /\ ~chat[p].lost)
                  => /\ Len(printed) = 2
                     /\ Len(transcript) = Len(chat[p].base) + 1
                     /\ LastOf(transcript) = FirstDoc(chat[p])
C22_Witness ==
    /\ ~Connected
    /\ stage[1].op = "interpret" /\ stage[1].pc = "done" /\ stage[1].result.success
    /\ chat[1].pc = "done" /\ Prints(chat[1])
    /\ printed = <<FALSE, FALSE>>
    /\ pushed = <<>>
    /\ Len(transcript) = Len(chat[1].base) + 1
    /\ LastOf(transcript) = FirstDoc(chat[1])

\* the keys that the loop of mutate_workspace names
KnownKeys ==
    {"belief", "desire", "intent", "belief_history", "cache", "is_active", "action",
     "follow_up", "slots", "plan", "new_state_machine", "step_state", "plan_state",
     "action_log"}

\* a change set without the keys that the loop does not name
RECURSIVE KnownPart(_)
KnownPart(change_set) ==
    IF Len(change_set.ks) = 0 THEN EmptyDict
    ELSE LET rest == KnownPart(VMap(Tail(change_set.ks), Tail(change_set.vs)))
         IN  IF Head(change_set.ks) \in KnownKeys
             THEN VMap(<<Head(change_set.ks)>> \o rest.ks, <<Head(change_set.vs)>> \o rest.vs)
             ELSE rest

\* a field of state, as the store holds it; a document without state has the
\* state of lines 544 to 553
StateFieldOf(doc, f) ==
    IF Has(doc, "state") /\ Has(Get(doc, "state"), f) THEN Norm(Get2(doc, "state", f))
    ELSE IF Has(DefaultState, f) THEN Get(DefaultState, f)
    ELSE None
TopFieldOf(doc, f) == IF Has(doc, f) THEN Norm(Get(doc, f)) ELSE None

\* beliefs, desire, history, action, follow_up, slots, plan, state_machine and
\* cache of a workspace document
FieldsOf(doc) ==
    << [f \in {"beliefs", "desire", "history", "action", "follow_up", "slots"} |->
           StateFieldOf(doc, f)],
       [f \in {"plan", "state_machine", "cache"} |-> TopFieldOf(doc, f)] >>

\* the call of p reached the loop over its change set
Looped(p) == pcw[p] = "done" /\ Len(listed[p]) > 0 /\ IsDict(changes[p])

\* C23: keys of the change set that the loop does not know are not an error
\* and have no effect. A call whose change set has only such keys hands the
\* workspace to the store with beliefs, desire, history, action, follow_up,
\* slots, plan, state_machine and cache as they were, and returns true once
\* the store has taken it; in a mixed change set the document handed over is
\* the one the known keys alone give.
C23_UnknownKeysIgnored ==
    \A p \in Procs :
        Looped(p) =>
            /\ sent[p] = MutateResult(listed[p], wsid[p], sanitize(KnownPart(changes[p])),
                                      VStr("T" \o ToString(clock - 1))).handed
            /\ KnownPart(changes[p]) = EmptyDict
               => /\ Len(sent[p]) = 1
                  /\ FieldsOf(sent[p][1]) = FieldsOf(LastOf(listed[p]))
                  /\ Len(writes) > seen[p] => ret[p] = VBool(TRUE)

\* C23 witness: {foo: 1, bar: {x: 1}} on the workspace with plans, a cache and
\* a state machine returned true and the store took the document
C23_Witness ==
    /\ Looped(1)
    /\ changes[1] = Change2("foo", VInt(1), "bar", VMap(<<"x">>, <<VInt(1)>>))
    /\ FieldsOf(LastOf(listed[1])) = FieldsOf(PlannedWorkspace)
    /\ ret[1] = VBool(TRUE)
    /\ Len(writes) = seen[1] + 1
    /\ FieldsOf(LastOf(workspaces)) = FieldsOf(PlannedWorkspace)

\* plan[k] of a workspace document, as the store holds it; None when absent
PlanOf(doc, k) ==
    IF Has(doc, "plan") /\ Has(Get(doc, "plan"), k) THEN Norm(Get2(doc, "plan", k))
    ELSE None

\* the call of p reached the loop with a plan mutation that carries an id
PlanMutation(p) ==
    /\ Looped(p)
    /\ Has(changes[p], "plan")
    /\ IsDict(Get(changes[p], "plan"))
    /\ Has(Get(changes[p], "plan"), "id")

\* C24: a plan mutation with value v stores the sanitized v under plan[v.id],
\* whether or not the workspace had a plan under that id, and leaves the
\* plans under every other id as they were.
C24_PlanStoredUnderItsId ==
    \A p \in Procs :
        PlanMutation(p) =>
            /\ Len(sent[p]) = 1
            /\ \A k \in {"p1", "p2", "p3"} :
                   PlanOf(sent[p][1], k) =
                       IF Get2(changes[p], "plan", "id") = VStr(k)
                       THEN Norm(Get(changes[p], "plan"))
                       ELSE PlanOf(LastOf(listed[p]), k)

\* C24 witness: the plan {id: p1, steps: ['9']} replaced the p1 the workspace
\* had, p2 is as it was, and the store holds the result
C24_Witness ==
    /\ PlanMutation(1)
    /\ Persisted(1)
    /\ changes[1] = Change("plan", VMap(<<"id", "steps">>, <<VStr("p1"), VList(<<VStr("9")>>)>>))
    /\ PlanOf(LastOf(listed[1]), "p1") = Get2(PlannedWorkspace, "plan", "p1")
    /\ PlanOf(LastOf(workspaces), "p1") = Get(changes[1], "plan")
    /\ PlanOf(LastOf(workspaces), "p2") = Get2(PlannedWorkspace, "plan", "p2")

\* the call of p was a plan mutation for an id under which the workspace it
\* listed had a plan already, and the store took its document
PlanGivenAgain(p) ==
    /\ PlanMutation(p)
    /\ Persisted(p)
    /\ Len(writes) > seen[p]
    /\ Has(LastOf(listed[p]), "plan")
    /\ Has(Get(LastOf(listed[p]), "plan"), Get2(changes[p], "plan", "id").s)

\* C25 as stated: a plan definition is inserted once; a later plan mutation
\* with the same id does not overwrite it, plan[plan_id] stays the document of
\* the first plan mutation for that id.
C25_PlanInsertedOnce ==
    \A p \in Procs :
        PlanGivenAgain(p) =>
            PlanOf(Stored(sent[p][1]), Get2(changes[p], "plan", "id").s)
                = PlanOf(LastOf(listed[p]), Get2(changes[p], "plan", "id").s)

\* C25 as the code has it: a plan definition is replaced by every plan
\* mutation for its id; after any sequence of mutations plan[plan_id] is the
\* document given by the latest plan mutation for that id.
C25_PlanLatestWins ==
    \A p \in Procs :
        PlanGivenAgain(p) =>
            PlanOf(Stored(sent[p][1]), Get2(changes[p], "plan", "id").s)
                = Norm(Get(changes[p], "plan"))

\* C25 witness: two plan mutations for p1 in a row, with steps ['8'] and then
\* with steps ['9']; the store holds the second
C25_Witness ==
    /\ PlanGivenAgain(1)
    /\ calls = 2
    /\ Len(pre[1]) > 0
    /\ PlanOf(LastOf(pre[1]), "p1")
           = VMap(<<"id", "steps">>, <<VStr("p1"), VList(<<VStr("8")>>)>>)
    /\ PlanOf(LastOf(workspaces), "p1")
           = VMap(<<"id", "steps">>, <<VStr("p1"), VList(<<VStr("9")>>)>>)

\* d without its key k
DropKey(d, k) ==
    LET keep == SelectSeq([i \in 1..Len(d.ks) |-> i], LAMBDA i : d.ks[i] # k)
    IN  VMap([j \in 1..Len(keep) |-> d.ks[keep[j]]], [j \in 1..Len(keep) |-> d.vs[keep[j]]])

\* step['action_log'], empty when the step has none
LogOf(step) == IF Has(step, "action_log") THEN Get(step, "action_log").items ELSE <<>>

\* the record an action_log mutation stands for: its tool, status, nonce,
\* message, type and actionable, as far as it has them
LogRecord(output) ==
    LET keys == SelectSeq(<<"tool", "status", "nonce", "message", "type", "actionable">>,
                          LAMBDA f : Has(output, f))
    IN  VMap(keys, [j \in 1..Len(keys) |-> Norm(Get(output, keys[j]))])

\* the call of p reached the loop with an action_log mutation for a step that
\* the plan of the listed workspace declares
LogMutation(p) ==
    /\ Looped(p)
    /\ Has(changes[p], "action_log")
    /\ IsDict(Get(changes[p], "action_log"))
    /\ Has(Get(changes[p], "action_log"), "plan_id")
    /\ Has(Get(changes[p], "action_log"), "plan_step")
    /\ Declares(LastOf(listed[p]), Get2(changes[p], "action_log", "plan_id").s,
                Get2(changes[p], "action_log", "plan_step"))

\* C26: an action_log mutation for a declared step appends exactly one record
\* to the action_log of that step, with exactly those of tool, status, nonce,
\* message, type and actionable that the input has (never plan_id or
\* plan_step); the earlier records of the log, the other fields of the step and
\* the other steps are as they were.
C26_ActionLogAppendsOneRecord ==
    \A p \in Procs :
        LogMutation(p) =>
            /\ Len(sent[p]) = 1
            /\ LET output == Get(changes[p], "action_log")
                   plan_id == Get(output, "plan_id").s
                   before == StepsOf(Norm(LastOf(listed[p])), plan_id).items
                   after == StepsOf(sent[p][1], plan_id).items
               IN  /\ Len(after) = Len(before)
                   /\ \A i \in 1..Len(before) :
                          IF StrOf(Get(before[i], "step_id"))
                                 = StrOf(sanitize(Get(output, "plan_step")))
                          THEN /\ LogOf(after[i]) = Append(LogOf(before[i]), LogRecord(output))
                               /\ DropKey(after[i], "action_log")
                                      = DropKey(before[i], "action_log")
                          ELSE after[i] = before[i]

\* C26 witness: the mutation {plan_id: p1, plan_step: '0', tool: 't2', status:
\* 'ok', details: 'zz', nonce: 5} on the step that had one record: the store
\* holds two records, the second with tool, status and nonce only
C26_Witness ==
    /\ LogMutation(1)
    /\ Persisted(1)
    /\ Len(writes) > seen[1]
    /\ Has(Get(changes[1], "action_log"), "details")
    /\ LogOf(StepsOf(LastOf(workspaces), "p1").items[1])
           = << VMap(<<"tool", "nonce">>, <<VStr("t"), VInt(7)>>),
                VMap(<<"tool", "status", "nonce">>, <<VStr("t2"), VStr("ok"), VInt(5)>>) >>
    /\ Get(StepsOf(LastOf(workspaces), "p1").items[1], "note") = VStr("n")

\* C27: a desire (an action) mutation replaces state.desire (state.action)
\* exactly when the given value is a string; any other value leaves the field
\* as it was and is not an error: the call hands the workspace over with the
\* rest of the change set applied and returns true once the store has taken it.
C27_ReplacedByStringsOnly ==
    \A p \in Procs : \A f \in {"desire", "action"} :
        (Looped(p) /\ Has(changes[p], f)) =>
            /\ Len(sent[p]) = 1
            /\ StateFieldOf(sent[p][1], f) =
                   IF IsStr(Get(changes[p], f)) THEN Get(changes[p], f)
                   ELSE StateFieldOf(LastOf(listed[p]), f)
            /\ Has(changes[p], "belief")
               => BeliefOf(sent[p][1], "b") = Get2(changes[p], "belief", "b")
            /\ Len(writes) > seen[p] => ret[p] = VBool(TRUE)

\* cache[k] of a workspace document, as the store holds it; None when absent
CacheEntry(doc, k) ==
    IF Has(doc, "cache") /\ Has(Get(doc, "cache"), k) THEN Norm(Get2(doc, "cache", k))
    ELSE None

\* C28: a cache mutation with a mapping sets cache[k] to the given value for
\* each key of the mapping and leaves the other cache keys as they were; with
\* a list it stores the list under cache.results and leaves the other cache
\* keys as they were (values in the form the sanitizer gives them).
C28_CacheSetPerKey ==
    \A p \in Procs :
        (Looped(p) /\ Has(changes[p], "cache")) =>
            /\ Len(sent[p]) = 1
            /\ LET output == Get(changes[p], "cache")
               IN  \A k \in {"k0", "k1", "results"} :
                       CacheEntry(sent[p][1], k) =
                           IF IsDict(output) /\ Has(output, k) THEN Norm(Get(output, k))
                           ELSE IF IsList(output) /\ k = "results" THEN Norm(output)
                           ELSE CacheEntry(LastOf(listed[p]), k)

\* C28 witness: after {k1: 2.5, k0: 'v9'} and then the list ['a', 1.5] the
\* store holds k0 and k1 of the first call and the list under results
C28_Witness ==
    /\ Looped(1)
    /\ Len(writes) > seen[1]
    /\ calls = 2
    /\ Len(pre[1]) > 0
    /\ CacheEntry(LastOf(pre[1]), "results") = VList(<<VStr("r0")>>)
    /\ changes[1] = Change("cache", VList(<<VStr("a"), VFloat(15)>>))
    /\ CacheEntry(LastOf(workspaces), "k0") = VStr("v9")
    /\ CacheEntry(LastOf(workspaces), "k1") = VStr("2.5")
    /\ CacheEntry(LastOf(workspaces), "results") = VList(<<VStr("a"), VStr("1.5")>>)

\* the pairs of a beliefs mapping as 'key = value', in the order of the mapping
Rendered(beliefs) ==
    [i \in 1..Len(beliefs.ks) |-> beliefs.ks[i] \o " = " \o FormatValue(beliefs.vs[i])]

\* state.beliefs of a workspace document, the empty mapping when it has none
BeliefsOf(doc) ==
    IF Has(doc, "state") /\ Has(Get(doc, "state"), "beliefs") THEN Get2(doc, "state", "beliefs")
    ELSE EmptyDict

\* the interpret of p has read the active workspace, after the last
\* mutate_workspace call of p had ended
BeliefsRead(p) ==
    /\ stage[p].op = "interpret"
    /\ stage[p].belief_str # None

\* C29: after mutate_workspace({'belief': B}) has returned true, the next
\* interpret on the thread builds a belief string that lists 'key = value' for
\* every pair of the merged state.beliefs, in insertion order, joined by ', ';
\* with no workspace or no beliefs the list is empty.
C29_BeliefsReachInterpret ==
    \A p \in Procs :
        BeliefsRead(p) =>
            /\ (/\ pcw[p] = "done"
                /\ ret[p] = VBool(TRUE)
                /\ Has(changes[p], "belief")
                /\ IsDict(Get(changes[p], "belief")))
               => stage[p].belief_str =
                      VStr("Current beliefs: "
                           \o JoinWith(Rendered(Norm(MergeDict(BeliefsOf(LastOf(listed[p])),
                                                               Get(changes[p], "belief")))),
                                       ", "))
            /\ (Len(workspaces) = 0 \/ BeliefsOf(LastOf(workspaces)) = EmptyDict)
               => stage[p].belief_str = VStr("Current beliefs: ")

\* the place of the last tool message of a list, 0 when it has none
LastToolMessage(messages) ==
    IF \E i \in 1..Len(messages) : IsToolMessage(messages[i])
    THEN CHOOSE i \in 1..Len(messages) :
             /\ IsToolMessage(messages[i])
             /\ \A j \in (i + 1)..Len(messages) : ~IsToolMessage(messages[j])
    ELSE 0

\* the returned list has the messages of the argument in their places, the
\* content of each aside, and every tool message but the last has content ''
ClearedButLast ==
    /\ Len(cleared) = Len(message_list)
    /\ \A i \in 1..Len(message_list) :
           /\ DropKey(cleared[i], "content") = DropKey(message_list[i], "content")
           /\ (IsToolMessage(message_list[i]) /\ i # LastToolMessage(message_list))
              => Get(cleared[i], "content") = VStr("")

\* C30 as stated: with the default N = 1, clear_tool_message_content sets the
\* content of every tool message except the last one to '', keeps the content
\* of that last tool message, and does not add, remove or reorder messages.
C30_LastToolContentKept ==
    clear_pc = "done" =>
        /\ ClearedButLast
        /\ LastToolMessage(message_list) # 0
           => Get(cleared[LastToolMessage(message_list)], "content")
                  = Get(message_list[LastToolMessage(message_list)], "content")

\* C30 as the code has it: with the default N = 1, the content of every tool
\* message except the last one becomes '', and the last tool message keeps
\* its content as a string: a string as it is, a list or a dict as the JSON
\* text of its sanitized form; no message is added, removed or moved.
C30_LastToolContentKeptAsText ==
    clear_pc = "done" =>
        /\ ClearedButLast
        /\ LastToolMessage(message_list) # 0
           => LET before == Get(message_list[LastToolMessage(message_list)], "content")
                  after == Get(cleared[LastToolMessage(message_list)], "content")
              IN  /\ IsStr(after)
                  /\ IsStr(before) => after = before
                  /\ (IsList(before) \/ IsDict(before))
                     => json_loads(after.s) = sanitize(before)

\* C30 witness: of two tool messages, the first with the text '{}' and the last
\* with the parsed result [{a: 1}], the first is cleared and the last holds
\* the JSON text of its list
C30_Witness ==
    /\ clear_pc = "done"
    /\ Len(message_list) = 3
    /\ message_list[2] = ToolMessage(VStr("{}"))
    /\ message_list[3] = ToolMessage(VList(<<VMap(<<"a">>, <<VInt(1)>>)>>))
    /\ Get(cleared[2], "content") = VStr("")
    /\ Get(cleared[3], "content") = VStr("[{\"a\": 1}]")

\* the interpret of p has built its prompt
Prompted(p) == stage[p].op = "interpret" /\ stage[p].pc = "llm"

\* the action of the list that interpret selects: the first one whose key is
\* the action of the workspace it read ('' without a workspace), 0 when none
SelectedAction(p) ==
    LET key == IF stage[p].workspace = VBool(FALSE) THEN VStr("")
               ELSE StateFieldOf(stage[p].workspace, "action")
        acts == stage[p].list_actions.items
    IN  IF \E i \in 1..Len(acts) : Get(acts[i], "key") = IF key = None THEN VStr("") ELSE key
        THEN CHOOSE i \in 1..Len(acts) :
                 /\ Get(acts[i], "key") = (IF key = None THEN VStr("") ELSE key)
                 /\ \A j \in 1..(i - 1) : Get(acts[j], "key") # Get(acts[i], "key")
        ELSE 0

\* the keys in the allow-list of the action interpret selected: the pieces of
\* its tools_reference between commas, without the blanks around them
AllowedKeys(p) ==
    IF SelectedAction(p) = 0 THEN {}
    ELSE LET a == stage[p].list_actions.items[SelectedAction(p)]
         IN  IF Has(a, "tools_reference") /\ IsStr(Get(a, "tools_reference"))
                /\ Get(a, "tools_reference").s \in {e.text : e \in AllowLists}
             THEN Range(split_strip(Get(a, "tools_reference").s))
             ELSE {}

\* C31: every tool schema in the prompt that interpret sends to the model has
\* a key in the allow-list of the selected action, and with the no-tools flag
\* the prompt has no tool schema at all, whatever the catalog and the
\* allow-list hold.
C31_OnlyAllowedToolsSent ==
    \A p \in Procs :
        Prompted(p) =>
            IF stage[p].no_tools THEN stage[p].tools = None
            ELSE /\ IsList(stage[p].tools)
                 /\ \A i \in 1..Len(stage[p].tools.items) :
                        Get2(stage[p].tools.items[i], "function", "name").s \in AllowedKeys(p)

\* C31 witness: the action of the workspace allows 'x, y' and the catalog has
\* x, y and z: the prompt has the schemas of x and y
C31_Witness ==
    /\ Prompted(1)
    /\ ~stage[1].no_tools
    /\ AllowedKeys(1) = {"x", "y"}
    /\ Len(stage[1].list_tools.items) = 3
    /\ Len(stage[1].tools.items) = 2
    /\ Get2(stage[1].tools.items[1], "function", "name") = VStr("x")
    /\ Get2(stage[1].tools.items[2], "function", "name") = VStr("y")

\* the call of p has returned
Returned(p) == pcw[p] = "done" /\ ret[p] # None

\* the positions of the store whose document differs from the one the call of
\* p found there
Rewritten(p) ==
    { i \in 1..Len(workspaces) : i > Len(pre[p]) \/ workspaces[i] # pre[p][i] }

\* C32: a mutate_workspace call that returns True on a thread with no
\* workspace has created exactly one workspace and handed that workspace, with
\* the change set applied, to the store; a call on a thread with a workspace
\* creates none, and without a workspace id it changes no workspace but the
\* last listed one.
C32_CreatesOneChangesLast ==
    Returned(1) =>
        IF pre[1] = <<>>
        THEN /\ Len(workspaces) <= 1
             /\ ret[1] = VBool(TRUE) =>
                   /\ Len(workspaces) = 1
                   /\ Len(sent[1]) = 1
                   /\ Get(sent[1][1], "_id") = Get(NewWorkspace(0), "_id")
                   /\ Get(workspaces[1], "_id") = Get(NewWorkspace(0), "_id")
                   /\ sent[1][1] # NewWorkspace(0)
                   /\ writes # <<>> => workspaces[1] = sent[1][1]
        ELSE /\ Len(workspaces) = Len(pre[1])
             /\ ~Truthy(wsid[1]) =>
                   /\ Rewritten(1) \subseteq {Len(workspaces)}
                   /\ \A i \in 1..Len(sent[1]) :
                         Get(sent[1][i], "_id") = Get(pre[1][Len(pre[1])], "_id")

\* C32 witness: a call on a thread with no workspace has returned True, and
\* the store holds the one new workspace with the belief of the change set
C32_Witness ==
    /\ Returned(1) /\ ret[1] = VBool(TRUE)
    /\ pre[1] = <<>> /\ calls = 1
    /\ writes = <<1>>
    /\ Len(workspaces) = 1
    /\ changes[1] = Change("belief", VMap(<<"a">>, <<VStr("y")>>))
    /\ Get2(workspaces[1], "state", "beliefs") = VMap(<<"a">>, <<VStr("y")>>)

\* a workspace id is given and no workspace that the call of p found has it
Unmatched(p) ==
    /\ Truthy(wsid[p])
    /\ \A i \in 1..Len(pre[p]) : Get(pre[p][i], "_id") # wsid[p]

\* C36: a mutate_workspace call with a workspace id that no workspace of the
\* thread has returns False and leaves the store as it found it: no workspace
\* is created and none is rewritten, also on a thread with no workspace.
C36_UnmatchedIdLeavesStore ==
    (Returned(1) /\ Unmatched(1)) => (ret[1] = VBool(FALSE) /\ workspaces = pre[1])

\* C37: two mutate_workspace calls that run at the same time on a thread with
\* no workspace create at most one workspace between them: once both have
\* returned the thread has exactly one workspace.
C37_ConcurrentCallsCreateOne ==
    (/\ pre[1] = <<>> /\ pre[2] = <<>>
     /\ Returned(1) /\ Returned(2)
     /\ ret[1] = VBool(TRUE) /\ ret[2] = VBool(TRUE)) => Len(workspaces) = 1

\* interpret has returned success
InterpretSucceeded(p) ==
    /\ stage[p].op = "interpret"
    /\ stage[p].pc = "done"
    /\ stage[p].result.success

\* what the transcript has gained since the interpret of p began
Gained(p) == SubSeq(transcript, Len(stage[p].base) + 1, Len(transcript))

\* C33: whenever interpret returns success the transcript has grown by exactly
\* one assistant text message, or by exactly one tool_rq message with its
\* placeholders: no validated message is dropped, also not one whose
\* tool_calls is an empty list or whose content is the empty string.
C33_SuccessMeansPersisted ==
    \A p \in Procs :
        InterpretSucceeded(p)
        => /\ Len(transcript) > Len(stage[p].base)
           /\ SubSeq(transcript, 1, Len(stage[p].base)) = stage[p].base
           /\ \/ Gained(p) = <<MessageDoc(stage[p].result.output, "text", None)>>
              \/ /\ Has(stage[p].result.output, "tool_calls")
                 /\ IsList(Get(stage[p].result.output, "tool_calls"))
                 /\ Gained(p)
                       = <<MessageDoc(stage[p].result.output, "tool_rq", None)>>
                         \o Placeholders(Get(stage[p].result.output, "tool_calls").items)

\* the arguments of the tool calls of message m
ArgumentsOf(m) ==
    [i \in 1..Len(Get(m, "tool_calls").items) |->
        Get2(Get(m, "tool_calls").items[i], "function", "arguments")]

\* C34: a message whose tool calls are otherwise well formed is accepted
\* exactly when every arguments value that is a string parses as JSON as it
\* stands: remove_outer_escape never turns a rejection into an acceptance, and
\* an accepted message keeps its arguments as they came, double-escaped ones
\* too.
C34_ArgumentsParseAtOnce ==
    (/\ val_pc = "done"
     /\ Conforms(raw_response)
     /\ NonNull(raw_response, "tool_calls"))
    => /\ validation.success
          <=> \A i \in 1..Len(ArgumentsOf(raw_response)) :
                  IsStr(ArgumentsOf(raw_response)[i])
                  => json_loads(ArgumentsOf(raw_response)[i].s) # JsonError
       /\ validation.success
          => Get(validation.output, "tool_calls") = Get(raw_response, "tool_calls")

\* C34 witness: a tool call with double-escaped arguments has been accepted
\* with its arguments as they came, and there are messages rejected for
\* arguments that do not parse
C34_Witness ==
    /\ val_pc = "done"
    /\ validation.success
    /\ NonNull(raw_response, "tool_calls")
    /\ IsList(Get(raw_response, "tool_calls"))
    /\ Len(Get(raw_response, "tool_calls").items) = 1
    /\ Conforms(raw_response)
    /\ ArgumentsOf(raw_response) = <<VStr("\"{}\"")>>
    /\ ArgumentsOf(validation.output) = <<VStr("\"{}\"")>>

\* the tool messages of the list that come after place i
ToolMessagesAfter(messages, i) ==
    Cardinality({ j \in (i + 1)..Len(messages) : IsToolMessage(messages[j]) })

\* C35: clear_tool_message_content(list, recent_tool_messages = N) leaves the
\* content, as text, on exactly the last min(N, T) of the T tool messages of
\* the list and empties every tool message before them; with N = 0 every tool
\* message is emptied.
C35_LastNToolMessagesKept ==
    clear_pc = "done" =>
        /\ Len(cleared) = Len(message_list)
        /\ \A i \in 1..Len(message_list) :
              IsToolMessage(message_list[i]) =>
                  Get(cleared[i], "content")
                     = IF ToolMessagesAfter(message_list, i) < recent
                       THEN StringContent(message_list[i])
                       ELSE VStr("")

\* pre_process_message of p has read a workspace and built its prompt
PreProcessed(p) ==
    /\ stage[p].op = "pre_process_message"
    /\ stage[p].workspace # None
    /\ stage[p].workspace # VBool(FALSE)

\* C38: the current-belief mapping that pre_process_message puts in its prompt
\* is state.beliefs of the workspace as mutate_workspace({'belief': ...}) last
\* wrote it, so the beliefs written in one cycle, the facts that
\* pre_process_message writes among them, are read back by the next
\* pre_process_message.
C38_CurrentBeliefsShown ==
    \A p \in Procs :
        PreProcessed(p) =>
            stage[p].last_belief = BeliefsOf(sanitize(LastOf(stage[p].store)))

\* the call of create_job_run has returned after it stored a run document
RunCreated ==
    /\ job.pc = "returned"
    /\ job.response_2 # None
    /\ Has(job.response_2, "path")

\* the run document of the call
RunOfCall == schd_runs[RunAt(Get(job.response_2, "path"))]

\* C39: every schd_runs document that create_job_run has created with status
\* 'new' has status 'executed' and a time_executed when create_job_run
\* returns, whether the handler succeeded, failed or the job document names
\* no handler: no run is left in status 'new'.
C39_NoRunLeftNew ==
    RunCreated =>
        /\ Get(RunOfCall, "status") = VStr("executed")
        /\ Get(RunOfCall, "time_executed") # VStr(".")

\* the handler of the job has run and failed
HandlerFailed ==
    /\ job.pc = "returned"
    /\ job.ran
    /\ ~Truthy(Get(job.response_3, "success"))

\* C40: create_job_run returns a status other than 200 whenever the run of
\* the job's handler failed: the status of the store update that records the
\* results does not replace it.
C40_HandlerFailureReturned ==
    HandlerFailed => job.status # 200

=============================================================================
